---------------------------- MODULE Spec2Model ----------------------------
(* Nurse management: the REST API of backend/server.js and server.js      *)
(* over the SQLite table "nurses".  Strings are sequences of UTF-16 code  *)
(* units, so that parsing and comparison are computed, not assumed.       *)
EXTENDS Integers, Sequences, FiniteSets, TLC

(***************************************************************************)
(* Bounds of the model.                                                    *)
(***************************************************************************)
MaxRequests == 2   \* requests received by the server in one run
MaxInFlight == 2   \* requests the server handles concurrently
MaxClock == 1      \* seconds CURRENT_TIMESTAMP advances in one run
MaxLen == 3        \* records of a collection given to sort and filter

(***************************************************************************)
(* String literals of the model's inputs (code units).                     *)
(***************************************************************************)
sAnnLee == <<65, 110, 110, 32, 76, 101, 101>>              \* "Ann Lee"
sBo == <<66, 111>>                                         \* "Bo"
sRN1 == <<82, 78, 45, 49>>                                 \* "RN-1"
sRN2 == <<82, 78, 45, 50>>                                 \* "RN-2"
sDob1990 == <<49, 57, 57, 48, 45, 48, 49, 45, 48, 49>>     \* "1990-01-01"
sDob1985 == <<49, 57, 56, 53, 45, 48, 51, 45, 49, 53>>     \* "1985-03-15"
s7x == <<55, 120>>                                         \* "7x"
sabc == <<97, 98, 99>>                                     \* "abc"
sRN2024001 == <<82, 78, 45, 50, 48, 50, 52, 45, 48, 48, 49>>  \* "RN-2024-001"

(***************************************************************************)
(* JSON values of a request body, as JavaScript sees them.                 *)
(***************************************************************************)
JsUndefined == [kind |-> "undefined", str |-> <<>>, num |-> 0]
JsStr(s) == [kind |-> "string", str |-> s, num |-> 0]
JsNum(n) == [kind |-> "number", str |-> <<>>, num |-> n]

\* JavaScript's !v
Falsy(v) ==
    \/ v.kind = "undefined"
    \/ v.kind = "string" /\ v.str = <<>>
    \/ v.kind = "number" /\ v.num = 0

IsDigit(c) == c >= 48 /\ c <= 57
IsWhite(c) == c \in {9, 10, 11, 12, 13, 32}

RECURSIVE SkipWhite(_)
SkipWhite(s) ==
    IF s # <<>> /\ IsWhite(Head(s)) THEN SkipWhite(Tail(s)) ELSE s

\* the value of the longest prefix of decimal digits of s, continuing acc;
\* seen tells whether a digit was read
RECURSIVE ParseDigits(_, _, _)
ParseDigits(s, acc, seen) ==
    IF s # <<>> /\ IsDigit(Head(s))
    THEN ParseDigits(Tail(s), acc * 10 + (Head(s) - 48), TRUE)
    ELSE [nan |-> ~seen, val |-> acc]

\* parseInt of a string: white space, an optional sign, decimal digits;
\* anything after the digits is ignored, no digit gives NaN
ParseIntStr(s) ==
    LET t == SkipWhite(s)
        neg == t # <<>> /\ Head(t) = 45
        u == IF t # <<>> /\ Head(t) \in {43, 45} THEN Tail(t) ELSE t
        p == ParseDigits(u, 0, FALSE)
    IN  IF p.nan THEN [nan |-> TRUE, val |-> 0]
        ELSE [nan |-> FALSE, val |-> IF neg THEN 0 - p.val ELSE p.val]

\* parseInt(v): a number is converted to its string first, so an integer is
\* returned as it is; undefined gives NaN
ParseInt(v) ==
    CASE v.kind = "number" -> [nan |-> FALSE, val |-> v.num]
      [] v.kind = "string" -> ParseIntStr(v.str)
      [] OTHER -> [nan |-> TRUE, val |-> 0]

(***************************************************************************)
(* The table "nurses": a set of rows.  NoRow is what stmt.get returns for  *)
(* a missing row (undefined); ids start at 1.                              *)
(***************************************************************************)
NoRow == [id |-> 0, name |-> <<>>, license_number |-> <<>>, dob |-> <<>>,
          age |-> 0, created_at |-> 0, updated_at |-> 0]

Row(id, name, lic, dob, age, created, updated) ==
    [id |-> id, name |-> name, license_number |-> lic, dob |-> dob,
     age |-> age, created_at |-> created, updated_at |-> updated]

\* SELECT * FROM nurses WHERE id = ?
SelectById(table, id) ==
    IF \E r \in table : r.id = id
    THEN CHOOSE r \in table : r.id = id
    ELSE NoRow

\* if (!existingNurse) ... : the lookup returned a row
AlwaysFound(row) == TRUE

Found(row) == row # NoRow

Ids(table) == {r.id : r \in table}

MaxOf(S) == CHOOSE x \in S : \A y \in S : y <= x

\* SELECT * FROM nurses ORDER BY id DESC
RECURSIVE OrderByIdDescAll(_)
OrderByIdDescAll(table) ==
    IF table = {} THEN <<>>
    ELSE LET top == CHOOSE r \in table : \A q \in table : q.id <= r.id
         IN  <<top>> \o OrderByIdDescAll(table \ {top})

RECURSIVE OrderByIdAscAll(_)
OrderByIdAscAll(table) ==
    IF table = {} THEN <<>>
    ELSE LET low == CHOOSE r \in table : \A q \in table : q.id >= r.id
         IN  <<low>> \o OrderByIdAscAll(table \ {low})

SelectAll(table) == OrderByIdDescAll(table)

\* license_number TEXT NOT NULL UNIQUE: a row other than `except` holds lic
NoUniqueCheck(table, lic, except) == FALSE

UniqueIgnoresExcept(table, lic, except) ==
    \E r \in table : r.license_number = lic

UniqueViolation(table, lic, except) ==
    \E r \in table : r.id # except /\ r.license_number = lic

\* INTEGER PRIMARY KEY without AUTOINCREMENT: one more than the largest id
\* now in the table
RowidMaxPlusOne(table, seq) ==
    IF table = {} THEN 1 ELSE MaxOf(Ids(table)) + 1

\* INTEGER PRIMARY KEY AUTOINCREMENT: one more than the largest id ever
\* used, which sqlite_sequence records
NextRowid(table, seq) ==
    (IF table = {} THEN seq ELSE MaxOf(Ids(table) \cup {seq})) + 1

ErrUnique == "UNIQUE constraint failed: nurses.license_number"
ErrNotNull == "NOT NULL constraint failed: nurses.age"

\* error.message.includes('UNIQUE constraint failed')
NeverUniqueError(msg) == FALSE

IsUniqueError(msg) == msg = ErrUnique

InsertSwapsColumns(table, seq, name, lic, dob, age, now) ==
    LET id == NextRowid(table, seq)
    IN  IF age.nan
        THEN [error |-> ErrNotNull, table |-> table, seq |-> seq, rowid |-> 0]
        ELSE IF UniqueViolation(table, lic, 0)
        THEN [error |-> ErrUnique, table |-> table, seq |-> seq, rowid |-> 0]
        ELSE [error |-> "",
              table |-> table \cup {Row(id, dob, lic, name, age.val, now, now)},
              seq |-> id, rowid |-> id]

\* INSERT INTO nurses (name, license_number, dob, age) VALUES (?, ?, ?, ?)
\* with age = parseInt(...): NaN is bound as NULL.  The result carries the
\* error thrown ("" for none), the new table and sequence, and
\* lastInsertRowid.
Insert(table, seq, name, lic, dob, age, now) ==
    LET id == NextRowid(table, seq)
    IN  IF age.nan
        THEN [error |-> ErrNotNull, table |-> table, seq |-> seq, rowid |-> 0]
        ELSE IF UniqueViolation(table, lic, 0)
        THEN [error |-> ErrUnique, table |-> table, seq |-> seq, rowid |-> 0]
        ELSE [error |-> "",
              table |-> table \cup {Row(id, name, lic, dob, age.val, now, now)},
              seq |-> id, rowid |-> id]

\* the SET clause of the UPDATE applied to one row
SetKeepsUpdatedAt(r, name, lic, dob, age, now) ==
    [r EXCEPT !.name = name, !.license_number = lic, !.dob = dob, !.age = age]

SetTouchesCreatedAt(r, name, lic, dob, age, now) ==
    [r EXCEPT !.name = name, !.license_number = lic, !.dob = dob, !.age = age,
              !.created_at = now, !.updated_at = now]

SetKeepsAge(r, name, lic, dob, age, now) ==
    [r EXCEPT !.name = name, !.license_number = lic, !.dob = dob,
              !.updated_at = now]

SetClause(r, name, lic, dob, age, now) ==
    [r EXCEPT !.name = name, !.license_number = lic, !.dob = dob, !.age = age,
              !.updated_at = now]

\* UPDATE nurses SET name = ?, license_number = ?, dob = ?, age = ?,
\* updated_at = CURRENT_TIMESTAMP WHERE id = ?
\* No matching row: nothing is checked and nothing changes.
Update(table, id, name, lic, dob, age, now) ==
    LET old == SelectById(table, id)
    IN  IF old = NoRow
        THEN [error |-> "", table |-> table, changes |-> 0]
        ELSE IF age.nan
        THEN [error |-> ErrNotNull, table |-> table, changes |-> 0]
        ELSE IF UniqueViolation(table, lic, id)
        THEN [error |-> ErrUnique, table |-> table, changes |-> 0]
        ELSE [error |-> "",
              table |-> (table \ {old})
                          \cup {SetClause(old, name, lic, dob, age.val, now)},
              changes |-> 1]

\* DELETE FROM nurses WHERE id = ?
DeleteAllRows(table, id) == {}

DeleteNothing(table, id) == table

Delete(table, id) == {r \in table : r.id # id}


(***************************************************************************)
(* server.js seeds five sample rows when the table is empty at startup.    *)
(***************************************************************************)
sampleNurses ==
    << [name |-> <<83, 97, 114, 97, 104, 32, 74, 111, 104, 110, 115, 111, 110>>,
        license_number |-> sRN2024001,
        dob |-> sDob1985, age |-> 39],
       [name |-> <<77, 105, 99, 104, 97, 101, 108, 32, 67, 104, 101, 110>>,
        license_number |-> <<82, 78, 45, 50, 48, 50, 52, 45, 48, 48, 50>>,
        dob |-> <<49, 57, 57, 48, 45, 48, 55, 45, 50, 50>>, age |-> 34],
       [name |-> <<69, 109, 105, 108, 121, 32, 87, 105, 108, 108, 105, 97, 109, 115>>,
        license_number |-> <<82, 78, 45, 50, 48, 50, 52, 45, 48, 48, 51>>,
        dob |-> <<49, 57, 56, 56, 45, 49, 49, 45, 48, 56>>, age |-> 36],
       [name |-> <<68, 97, 118, 105, 100, 32, 77, 97, 114, 116, 105, 110, 101, 122>>,
        license_number |-> <<82, 78, 45, 50, 48, 50, 52, 45, 48, 48, 52>>,
        dob |-> <<49, 57, 57, 50, 45, 48, 53, 45, 51, 48>>, age |-> 32],
       [name |-> <<74, 101, 115, 115, 105, 99, 97, 32, 66, 114, 111, 119, 110>>,
        license_number |-> <<82, 78, 45, 50, 48, 50, 52, 45, 48, 48, 53>>,
        dob |-> <<49, 57, 56, 55, 45, 48, 57, 45, 49, 50>>, age |-> 37] >>

\* sampleNurses.forEach(nurse => insertStmt.run(...nurse)), from row k on
RECURSIVE SeedFrom(_, _, _)
SeedFrom(k, table, seq) ==
    IF k > Len(sampleNurses) THEN [table |-> table, seq |-> seq]
    ELSE LET n == sampleNurses[k]
             res == Insert(table, seq, n.name, n.license_number, n.dob,
                           [nan |-> FALSE, val |-> n.age], 0)
         IN  SeedFrom(k + 1, res.table, res.seq)

\* nurses.db as the server finds it: no table yet, or the file a previous
\* run left, here with the one row it created
EmptyDb == [table |-> {}, seq |-> 0]
UsedDb == [table |-> {Row(1, sAnnLee, sRN1, sDob1990, 34, 0, 0)}, seq |-> 1]
DbFiles == {EmptyDb, UsedDb}

\* the database after startup: backend/server.js only creates the table,
\* server.js also seeds it when SELECT COUNT(*) is 0
Startup(v, db) ==
    IF v = "root" /\ db.table = {} THEN SeedFrom(1, db.table, db.seq) ELSE db

(***************************************************************************)
(* Request bodies the clients of the model send.                           *)
(***************************************************************************)
Body(name, lic, dob, age) ==
    [name |-> name, license_number |-> lic, dob |-> dob, age |-> age]

NoBody == Body(JsUndefined, JsUndefined, JsUndefined, JsUndefined)

Bodies ==
    { Body(JsStr(sAnnLee), JsStr(sRN1), JsStr(sDob1990), JsNum(34)),
      Body(JsStr(sBo), JsStr(sRN2), JsStr(sDob1985), JsStr(s7x)),
      Body(JsStr(sBo), JsStr(sRN1), JsStr(sDob1990), JsNum(0)),
      Body(JsUndefined, JsStr(sRN1), JsStr(sDob1990), JsNum(34)),
      Body(JsStr(sAnnLee), JsStr(<<>>), JsStr(sDob1990), JsNum(34)),
      Body(JsStr(sAnnLee), JsStr(sRN1), JsStr(sDob1990), JsUndefined),
      Body(JsStr(sAnnLee), JsStr(sRN1), JsStr(sDob1990), JsStr(<<>>)),
      Body(JsStr(sAnnLee), JsStr(sRN1), JsStr(sDob1990), JsStr(sabc)) }

\* backend/server.js: !name || !license_number || !dob || age === undefined
MissingBackend(b) ==
    \/ Falsy(b.name) \/ Falsy(b.license_number) \/ Falsy(b.dob)
    \/ b.age.kind = "undefined"

\* server.js: !name || !license_number || !dob || !age
MissingRoot(b) ==
    Falsy(b.name) \/ Falsy(b.license_number) \/ Falsy(b.dob) \/ Falsy(b.age)

MissingFields(v, b) == IF v = "root" THEN MissingRoot(b) ELSE MissingBackend(b)

MsgRequired(v) ==
    IF v = "root" THEN "All fields are required: name, license_number, dob, age"
    ELSE "All fields are required"
MsgDuplicate == "License number already exists"
MsgNotFound == "Nurse not found"
MsgCreateFailed == "Failed to create nurse"
MsgUpdateFailed == "Failed to update nurse"

(***************************************************************************)
(* Sort and filter of the two clients: part_000 (the page served by        *)
(* server.js) and frontend/src/App.jsx (the React client of                *)
(* backend/server.js).  A record of a client collection is a row as the    *)
(* API returned it.                                                        *)
(***************************************************************************)
\* String.prototype.toLowerCase, on the ASCII letters of the model's inputs
ToLowerCase(s) ==
    [i \in 1..Len(s) |-> IF s[i] >= 65 /\ s[i] <= 90 THEN s[i] + 32 ELSE s[i]]

\* String.prototype.includes
Includes(s, q) ==
    \E i \in 0..(Len(s) - Len(q)) : SubSeq(s, i + 1, i + Len(q)) = q

RECURSIVE DigitsOf(_)
DigitsOf(n) ==
    IF n < 10 THEN <<48 + n>> ELSE DigitsOf(n \div 10) \o <<48 + (n % 10)>>

\* Number.prototype.toString of an integer
NumberToString(n) == IF n < 0 THEN <<45>> \o DigitsOf(0 - n) ELSE DigitsOf(n)

\* a < b on two strings: code unit by code unit, a proper prefix is smaller
StringLess(a, b) ==
    \E k \in 1..Len(b) :
        /\ \A i \in 1..(k - 1) : i <= Len(a) /\ a[i] = b[i]
        /\ k - 1 <= Len(a)
        /\ (k > Len(a) \/ a[k] < b[k])

\* the digits of s from position i to j as a number; nan if one is no digit
DigitsAt(s, i, j) ==
    IF \A k \in i..j : IsDigit(s[k])
    THEN ParseDigits(SubSeq(s, i, j), 0, FALSE)
    ELSE [nan |-> TRUE, val |-> 0]

IsLeapYear(y) == (y % 4 = 0 /\ y % 100 # 0) \/ y % 400 = 0

DaysInMonth(y, m) ==
    IF m = 2 THEN (IF IsLeapYear(y) THEN 29 ELSE 28)
    ELSE IF m \in {4, 6, 9, 11} THEN 30 ELSE 31

\* days from 1970-01-01 to the day y-m-d of the Gregorian calendar
DaysFromCivil(y, m, d) ==
    LET yy == IF m <= 2 THEN y - 1 ELSE y
        era == yy \div 400
        yoe == yy - era * 400
        mp == (m + 9) % 12
        doy == (153 * mp + 2) \div 5 + d - 1
        doe == yoe * 365 + yoe \div 4 - yoe \div 100 + doy
    IN  era * 146097 + doe - 719468

\* the time value of year-month-day given as digit fields, NaN when a field
\* is out of range
DateOf(y, m, d) ==
    IF y.nan \/ m.nan \/ d.nan \/ m.val < 1 \/ m.val > 12 \/ d.val < 1
    THEN [nan |-> TRUE, val |-> 0]
    ELSE IF d.val > DaysInMonth(y.val, m.val)
    THEN [nan |-> TRUE, val |-> 0]
    ELSE [nan |-> FALSE, val |-> DaysFromCivil(y.val, m.val, d.val)]

\* new Date(s) for the date-only forms of the date time string format,
\* YYYY-MM-DD and +YYYYYY-MM-DD (midnight UTC); the value is in days.  Any
\* other string is an Invalid Date here: such strings are read in ways that
\* depend on the browser and are not among the inputs of the model.
NewDate(s) ==
    IF Len(s) = 10 /\ s[5] = 45 /\ s[8] = 45
    THEN DateOf(DigitsAt(s, 1, 4), DigitsAt(s, 6, 7), DigitsAt(s, 9, 10))
    ELSE IF Len(s) = 13 /\ s[1] = 43 /\ s[8] = 45 /\ s[11] = 45
    THEN DateOf(DigitsAt(s, 2, 7), DigitsAt(s, 9, 10), DigitsAt(s, 12, 13))
    ELSE [nan |-> TRUE, val |-> 0]

\* the year, month and day of a string in one of the two date-only forms
DateFields(s) ==
    IF Len(s) = 10
    THEN [y |-> DigitsAt(s, 1, 4).val, m |-> DigitsAt(s, 6, 7).val,
          d |-> DigitsAt(s, 9, 10).val]
    ELSE [y |-> DigitsAt(s, 2, 7).val, m |-> DigitsAt(s, 9, 10).val,
          d |-> DigitsAt(s, 12, 13).val]

\* the calendar day before y-m-d
DayBefore(t) ==
    IF t.d > 1 THEN [t EXCEPT !.d = t.d - 1]
    ELSE IF t.m > 1
    THEN [y |-> t.y, m |-> t.m - 1, d |-> DaysInMonth(t.y, t.m - 1)]
    ELSE [y |-> t.y - 1, m |-> 12, d |-> 31]

\* getFullYear(), getMonth() + 1 and getDate() of new Date(s): the fields
\* of midnight UTC of the day s as local time, where the zone is tz hours
\* ahead of UTC (between -12 and +14); NaN for an Invalid Date.  West of
\* Greenwich midnight UTC is an hour of the evening before.
LocalDate(s, tz) ==
    IF NewDate(s).nan THEN [nan |-> TRUE, y |-> 0, m |-> 0, d |-> 0]
    ELSE LET t == IF tz < 0 THEN DayBefore(DateFields(s)) ELSE DateFields(s)
         IN  [nan |-> FALSE, y |-> t.y, m |-> t.m, d |-> t.d]

\* the values the comparators compare: a number (maybe NaN) or a string
NumberValue(p) == [kind |-> "number", nan |-> p.nan, num |-> p.val, str |-> <<>>]
StringValue(s) == [kind |-> "string", nan |-> FALSE, num |-> 0, str |-> s]

\* x < y: always false when a side is NaN
LessThan(x, y) ==
    IF x.kind = "number" THEN ~x.nan /\ ~y.nan /\ x.num < y.num
    ELSE StringLess(x.str, y.str)

\* part_000 sortNurses: parseInt for age, new Date for dob, toLowerCase for
\* the other columns
PageSortValue(r, column) ==
    IF column = "age" THEN NumberValue(ParseInt(JsNum(r.age)))
    ELSE IF column = "dob" THEN NumberValue(NewDate(r.dob))
    ELSE StringValue(ToLowerCase(r[column]))

\* App.jsx handleSort: parseInt for age, toString().toLowerCase() for every
\* other key
AppSortValue(r, key) ==
    IF key = "age" THEN NumberValue(ParseInt(JsNum(r.age)))
    ELSE StringValue(ToLowerCase(r[key]))

SortValue(client, r, column) ==
    IF client = "page" THEN PageSortValue(r, column) ELSE AppSortValue(r, column)

\* the comparator both clients pass to Array.prototype.sort
CompareIgnoresDirection(client, a, b, column, direction) ==
    LET va == SortValue(client, a, column)
        vb == SortValue(client, b, column)
    IN  IF LessThan(va, vb) THEN 0 - 1
        ELSE IF LessThan(vb, va) THEN 1
        ELSE 0

Compare(client, a, b, column, direction) ==
    LET va == SortValue(client, a, column)
        vb == SortValue(client, b, column)
    IN  IF LessThan(va, vb) THEN (IF direction = "asc" THEN 0 - 1 ELSE 1)
        ELSE IF LessThan(vb, va) THEN (IF direction = "asc" THEN 1 ELSE 0 - 1)
        ELSE 0

\* x put before the first element of the sorted sequence that compares
\* greater than x
RECURSIVE InsertInto(_, _, _, _, _)
InsertInto(client, sorted, x, column, direction) ==
    IF sorted = <<>> THEN <<x>>
    ELSE IF Compare(client, Head(sorted), x, column, direction) > 0
    THEN <<x>> \o sorted
    ELSE <<Head(sorted)>> \o
         InsertInto(client, Tail(sorted), x, column, direction)

\* Array.prototype.sort(comparator): a stable sort (ECMAScript 2019), here
\* by insertion; every stable sort gives this result when the comparator is
\* a consistent order, which it is when no compared value is NaN
RECURSIVE ArraySort(_, _, _, _)
ArraySort(client, arr, column, direction) ==
    IF arr = <<>> THEN <<>>
    ELSE InsertInto(client,
                    ArraySort(client, SubSeq(arr, 1, Len(arr) - 1),
                              column, direction),
                    arr[Len(arr)], column, direction)

\* part_000: nurses.sort(...) in place
sortNurses(arr, column, direction) == ArraySort("page", arr, column, direction)

\* App.jsx: the predicate of nurses.filter(...) for the debounced term
MatchesCaseSensitive(nurse, term) ==
    \/ term = <<>>
    \/ Includes(nurse.name, term)
    \/ Includes(nurse.license_number, term)
    \/ Includes(nurse.dob, term)
    \/ Includes(NumberToString(nurse.age), term)

Matches(nurse, term) ==
    \/ term = <<>>
    \/ LET searchLower == ToLowerCase(term)
       IN  \/ Includes(ToLowerCase(nurse.name), searchLower)
           \/ Includes(ToLowerCase(nurse.license_number), searchLower)
           \/ Includes(nurse.dob, searchLower)
           \/ Includes(NumberToString(nurse.age), searchLower)

filteredNurses(arr, term) == SelectSeq(arr, LAMBDA n : Matches(n, term))

(***************************************************************************)
(* State.                                                                  *)
(***************************************************************************)
VARIABLES
    variant,          \* "backend" (backend/server.js) or "root" (server.js)
    nurses,           \* the rows of table nurses
    sqlite_sequence,  \* largest id AUTOINCREMENT has handed out
    clock,            \* CURRENT_TIMESTAMP, in seconds
    reqs,             \* the request each handler slot is serving
    timers,           \* slots waiting on asyncQuery's setTimeout, oldest first
    nreq,             \* requests received so far
    everAssigned,     \* history: ids that INSERT has assigned
    deletedOk,        \* history: ids whose DELETE was answered 200
    submitted,        \* history: POST body of each row not written since
    page,             \* part_000: the state of the page served by server.js
    app,              \* App.jsx: the state of the React client
    calls             \* the API calls of the client that have not resolved
\* A request also records, for the properties: late (its id had been
\* deleted with a 200 before it arrived), absent (its id was not in the
\* table when it arrived) and sub (the POST body of the row it read).

svars == <<variant, nurses, sqlite_sequence, clock, reqs, timers, nreq,
           everAssigned, deletedOk, submitted>>

cvars == <<page, app, calls>>

vars == <<variant, nurses, sqlite_sequence, clock, reqs, timers, nreq,
          everAssigned, deletedOk, submitted, page, app, calls>>

\* the values of the four inputs of the form of either client
EmptyForm == [name |-> <<>>, license_number |-> <<>>, dob |-> <<>>, age |-> <<>>]

\* part_000 lines 5-8 and 242, and the state it keeps in the DOM: the two
\* modal overlays, the handler of the confirm button (0: none), the submit
\* button, the loading overlay, the toast and the inputs of the form
PageInit ==
    [nurses |-> <<>>, currentSortColumn |-> "null", sortDirection |-> "asc",
     editingNurseId |-> 0, nurseToDelete |-> 0,
     modalActive |-> FALSE, deleteModalActive |-> FALSE,
     confirmDeleteId |-> 0, submitDisabled |-> FALSE, loadingShown |-> FALSE,
     toast |-> "", form |-> EmptyForm]

\* App.jsx: the useState initial values of useNursesApi, App and
\* NurseModal (formData, formError).  submitterOpen is history: the form
\* is still open that the save in flight was submitted from.
AppInit ==
    [nurses |-> <<>>, loading |-> TRUE, error |-> "null",
     isModalOpen |-> FALSE, editingNurse |-> NoRow, isSaving |-> FALSE,
     toast |-> "", sortConfig |-> [key |-> "null", direction |-> "asc"],
     searchTerm |-> <<>>, debouncedSearchTerm |-> <<>>, formError |-> "",
     formData |-> EmptyForm, submitterOpen |-> FALSE]

Slots == 1..MaxInFlight

IdleReq ==
    [pc |-> "idle", op |-> "NONE", id |-> 0, body |-> NoBody, row |-> NoRow,
     rowid |-> 0, rows |-> <<>>, status |-> 0, error |-> "",
     late |-> FALSE, absent |-> FALSE, sub |-> NoBody]

\* res.status(status).json(...): the handler is finished
Respond(r, status, error, row) ==
    [r EXCEPT !.pc = "done", !.status = status, !.error = error, !.row = row]

\* the POST that created row id is still being handled
Unanswered(id) ==
    \E t \in Slots : /\ reqs[t].op = "POST" /\ reqs[t].rowid = id
                      /\ reqs[t].pc \in {"post_inserted", "post_fetched"}

\* the POST body of row id, if the row was created by a POST that has been
\* answered and the row was not written since
SubmittedFor(id) ==
    IF ~Unanswered(id) /\ \E e \in submitted : e.id = id
    THEN (CHOOSE e \in submitted : e.id = id).body
    ELSE NoBody

InitFrom(v, db) ==
    /\ variant = v
    /\ nurses = Startup(v, db).table
    /\ sqlite_sequence = Startup(v, db).seq
    /\ clock = 0
    /\ reqs = [s \in Slots |-> IdleReq]
    /\ timers = <<>>
    /\ nreq = 0
    /\ everAssigned = (1..db.seq) \cup Ids(Startup(v, db).table)
    /\ deletedOk = (1..db.seq) \ Ids(db.table)
    /\ submitted = {}

\* the servers alone: no client of the model is running
Init ==
    /\ \E v \in {"backend", "root"}, db \in DbFiles : InitFrom(v, db)
    /\ page = PageInit /\ app = AppInit /\ calls = <<>>

\* ids a client may name: every id handed out so far and the next one
IdParams == 1..(sqlite_sequence + 1)

\* a response is written in the turn of the event loop that produced it:
\* nothing else happens between res.json and the handler's end
Quiet == \A t \in Slots : reqs[t].pc # "done"

\* a request reaches a free handler (the lowest free slot)
CanArrive(s) ==
    /\ Quiet
    /\ nreq < MaxRequests
    /\ reqs[s].pc = "idle"
    /\ \A t \in Slots : t < s => reqs[t].pc # "idle"

\* the timer of slot s fires: it is the oldest pending setTimeout
Fires(s, pc) ==
    /\ Quiet
    /\ timers # <<>> /\ Head(timers) = s
    /\ reqs[s].pc = pc

(***************************************************************************)
(* GET /api/nurses                                                         *)
(***************************************************************************)
ListArrive(s) ==
    /\ CanArrive(s)
    /\ LET r == [IdleReq EXCEPT !.op = "LIST", !.rows = SelectAll(nurses)]
       IN  IF variant = "root"
           THEN /\ reqs' = [reqs EXCEPT ![s] = Respond(r, 200, "", NoRow)]
                /\ UNCHANGED timers
           ELSE /\ reqs' = [reqs EXCEPT ![s] = [r EXCEPT !.pc = "list_fetched"]]
                /\ timers' = Append(timers, s)
    /\ nreq' = nreq + 1
    /\ UNCHANGED <<variant, nurses, sqlite_sequence, clock, everAssigned,
                   deletedOk, submitted>>

ListRespond(s) ==
    /\ Fires(s, "list_fetched")
    /\ reqs' = [reqs EXCEPT ![s] = Respond(reqs[s], 200, "", NoRow)]
    /\ timers' = Tail(timers)
    /\ UNCHANGED <<variant, nurses, sqlite_sequence, clock, nreq,
                   everAssigned, deletedOk, submitted>>

(***************************************************************************)
(* GET /api/nurses/:id                                                     *)
(***************************************************************************)
\* if (!nurse) 404, else the row
AnswerGet(r) ==
    IF ~Found(r.row) THEN Respond(r, 404, MsgNotFound, NoRow)
    ELSE Respond(r, 200, "", r.row)

GetArrive(s, id) ==
    /\ CanArrive(s)
    /\ LET r == [IdleReq EXCEPT !.op = "GET", !.id = id,
                                !.row = SelectById(nurses, id),
                                !.late = (id \in deletedOk),
                                !.sub = SubmittedFor(id)]
       IN  IF variant = "root"
           THEN /\ reqs' = [reqs EXCEPT ![s] = AnswerGet(r)]
                /\ UNCHANGED timers
           ELSE /\ reqs' = [reqs EXCEPT ![s] = [r EXCEPT !.pc = "get_fetched"]]
                /\ timers' = Append(timers, s)
    /\ nreq' = nreq + 1
    /\ UNCHANGED <<variant, nurses, sqlite_sequence, clock, everAssigned,
                   deletedOk, submitted>>

GetRespond(s) ==
    /\ Fires(s, "get_fetched")
    /\ reqs' = [reqs EXCEPT ![s] = AnswerGet(reqs[s])]
    /\ timers' = Tail(timers)
    /\ UNCHANGED <<variant, nurses, sqlite_sequence, clock, nreq,
                   everAssigned, deletedOk, submitted>>

(***************************************************************************)
(* POST /api/nurses                                                        *)
(***************************************************************************)
\* the catch block of POST
AnswerCreateError(r, msg) ==
    IF IsUniqueError(msg) THEN Respond(r, 400, MsgDuplicate, NoRow)
    ELSE Respond(r, 500, MsgCreateFailed, NoRow)

PostArrive(s, body) ==
    /\ CanArrive(s)
    /\ nreq' = nreq + 1
    /\ LET r == [IdleReq EXCEPT !.op = "POST", !.body = body]
           res == Insert(nurses, sqlite_sequence, body.name.str,
                         body.license_number.str, body.dob.str,
                         ParseInt(body.age), clock)
       IN  IF MissingFields(variant, body)
           THEN /\ reqs' = [reqs EXCEPT
                              ![s] = Respond(r, 400, MsgRequired(variant), NoRow)]
                /\ UNCHANGED <<nurses, sqlite_sequence, timers, everAssigned,
                               submitted>>
           ELSE IF res.error # ""
           THEN /\ reqs' = [reqs EXCEPT ![s] = AnswerCreateError(r, res.error)]
                /\ UNCHANGED <<nurses, sqlite_sequence, timers, everAssigned,
                               submitted>>
           ELSE /\ nurses' = res.table
                /\ sqlite_sequence' = res.seq
                /\ everAssigned' = everAssigned \cup {res.rowid}
                /\ submitted' = submitted \cup {[id |-> res.rowid, body |-> body]}
                /\ IF variant = "root"
                   THEN /\ reqs' = [reqs EXCEPT ![s] =
                              Respond([r EXCEPT !.rowid = res.rowid], 201, "",
                                      SelectById(res.table, res.rowid))]
                        /\ UNCHANGED timers
                   ELSE /\ reqs' = [reqs EXCEPT ![s] =
                              [r EXCEPT !.pc = "post_inserted",
                                        !.rowid = res.rowid]]
                        /\ timers' = Append(timers, s)
    /\ UNCHANGED <<variant, clock, deletedOk>>

\* backend/server.js: the second asyncQuery reads the new row back
PostFetch(s) ==
    /\ Fires(s, "post_inserted")
    /\ reqs' = [reqs EXCEPT ![s] =
                  [reqs[s] EXCEPT !.pc = "post_fetched",
                                  !.row = SelectById(nurses, reqs[s].rowid)]]
    /\ timers' = Append(Tail(timers), s)
    /\ UNCHANGED <<variant, nurses, sqlite_sequence, clock, nreq,
                   everAssigned, deletedOk, submitted>>

PostRespond(s) ==
    /\ Fires(s, "post_fetched")
    /\ reqs' = [reqs EXCEPT ![s] = Respond(reqs[s], 201, "", reqs[s].row)]
    /\ timers' = Tail(timers)
    /\ UNCHANGED <<variant, nurses, sqlite_sequence, clock, nreq,
                   everAssigned, deletedOk, submitted>>

(***************************************************************************)
(* PUT /api/nurses/:id                                                     *)
(***************************************************************************)
\* the catch block of PUT
AnswerUpdateError(r, msg) ==
    IF IsUniqueError(msg) THEN Respond(r, 400, MsgDuplicate, NoRow)
    ELSE Respond(r, 500, MsgUpdateFailed, NoRow)

\* stmt.run(name, license_number, dob, parseInt(age), id)
RunUpdate(r) ==
    Update(nurses, r.id, r.body.name.str, r.body.license_number.str,
           r.body.dob.str, ParseInt(r.body.age), clock)

\* rows of the history that a write to id makes stale
Written(id) == {e \in submitted : e.id = id}

\* server.js: existence check, validation, UPDATE and read-back in one turn
PutRoot(s, r) ==
    LET res == RunUpdate(r)
    IN  IF ~Found(SelectById(nurses, r.id))
        THEN /\ reqs' = [reqs EXCEPT ![s] = Respond(r, 404, MsgNotFound, NoRow)]
             /\ UNCHANGED <<nurses, submitted>>
        ELSE IF MissingRoot(r.body)
        THEN /\ reqs' = [reqs EXCEPT
                           ![s] = Respond(r, 400, MsgRequired("root"), NoRow)]
             /\ UNCHANGED <<nurses, submitted>>
        ELSE IF res.error # ""
        THEN /\ reqs' = [reqs EXCEPT ![s] = AnswerUpdateError(r, res.error)]
             /\ UNCHANGED <<nurses, submitted>>
        ELSE /\ nurses' = res.table
             /\ submitted' = submitted \ Written(r.id)
             /\ reqs' = [reqs EXCEPT ![s] =
                           Respond(r, 200, "", SelectById(res.table, r.id))]

\* backend/server.js: validation, then the first asyncQuery looks the row up
PutBackend(s, r) ==
    /\ IF MissingBackend(r.body)
       THEN /\ reqs' = [reqs EXCEPT
                          ![s] = Respond(r, 400, MsgRequired("backend"), NoRow)]
            /\ UNCHANGED timers
       ELSE /\ reqs' = [reqs EXCEPT ![s] =
                          [r EXCEPT !.pc = "put_checked",
                                    !.row = SelectById(nurses, r.id)]]
            /\ timers' = Append(timers, s)
    /\ UNCHANGED <<nurses, submitted>>

PutArrive(s, id, body) ==
    /\ CanArrive(s)
    /\ nreq' = nreq + 1
    /\ LET r == [IdleReq EXCEPT !.op = "PUT", !.id = id, !.body = body,
                                !.late = (id \in deletedOk),
                                !.absent = (id \notin Ids(nurses))]
       IN  IF variant = "root"
           THEN PutRoot(s, r) /\ UNCHANGED timers
           ELSE PutBackend(s, r)
    /\ UNCHANGED <<variant, sqlite_sequence, clock, everAssigned, deletedOk>>

\* backend/server.js: if (!existingNurse) 404, else the UPDATE runs
PutUpdate(s) ==
    /\ Fires(s, "put_checked")
    /\ LET r == reqs[s]
           res == RunUpdate(r)
       IN  IF ~Found(r.row)
           THEN /\ reqs' = [reqs EXCEPT ![s] = Respond(r, 404, MsgNotFound, NoRow)]
                /\ timers' = Tail(timers)
                /\ UNCHANGED <<nurses, submitted>>
           ELSE IF res.error # ""
           THEN /\ reqs' = [reqs EXCEPT ![s] = AnswerUpdateError(r, res.error)]
                /\ timers' = Tail(timers)
                /\ UNCHANGED <<nurses, submitted>>
           ELSE /\ nurses' = res.table
                /\ submitted' = IF res.changes > 0
                                THEN submitted \ Written(r.id) ELSE submitted
                /\ reqs' = [reqs EXCEPT ![s] = [r EXCEPT !.pc = "put_updated"]]
                /\ timers' = Append(Tail(timers), s)
    /\ UNCHANGED <<variant, sqlite_sequence, clock, nreq, everAssigned,
                   deletedOk>>

PutFetch(s) ==
    /\ Fires(s, "put_updated")
    /\ reqs' = [reqs EXCEPT ![s] =
                  [reqs[s] EXCEPT !.pc = "put_fetched",
                                  !.row = SelectById(nurses, reqs[s].id)]]
    /\ timers' = Append(Tail(timers), s)
    /\ UNCHANGED <<variant, nurses, sqlite_sequence, clock, nreq,
                   everAssigned, deletedOk, submitted>>

PutRespond(s) ==
    /\ Fires(s, "put_fetched")
    /\ reqs' = [reqs EXCEPT ![s] = Respond(reqs[s], 200, "", reqs[s].row)]
    /\ timers' = Tail(timers)
    /\ UNCHANGED <<variant, nurses, sqlite_sequence, clock, nreq,
                   everAssigned, deletedOk, submitted>>

(***************************************************************************)
(* DELETE /api/nurses/:id                                                  *)
(***************************************************************************)
DeleteArrive(s, id) ==
    /\ CanArrive(s)
    /\ nreq' = nreq + 1
    /\ LET r == [IdleReq EXCEPT !.op = "DELETE", !.id = id,
                                !.row = SelectById(nurses, id),
                                !.absent = (id \notin Ids(nurses))]
       IN  IF variant = "root"
           THEN /\ UNCHANGED timers
                /\ IF ~Found(r.row)
                   THEN /\ reqs' = [reqs EXCEPT
                                      ![s] = Respond(r, 404, MsgNotFound, NoRow)]
                        /\ UNCHANGED <<nurses, submitted, deletedOk>>
                   ELSE /\ nurses' = Delete(nurses, id)
                        /\ submitted' = submitted \ Written(id)
                        /\ deletedOk' = deletedOk \cup {id}
                        /\ reqs' = [reqs EXCEPT ![s] = Respond(r, 200, "", NoRow)]
           ELSE /\ reqs' = [reqs EXCEPT ![s] = [r EXCEPT !.pc = "del_checked"]]
                /\ timers' = Append(timers, s)
                /\ UNCHANGED <<nurses, submitted, deletedOk>>
    /\ UNCHANGED <<variant, sqlite_sequence, clock, everAssigned>>

\* backend/server.js: if (!existingNurse) 404, else the DELETE runs
DeleteRun(s) ==
    /\ Fires(s, "del_checked")
    /\ LET r == reqs[s]
       IN  IF ~Found(r.row)
           THEN /\ reqs' = [reqs EXCEPT ![s] = Respond(r, 404, MsgNotFound, NoRow)]
                /\ timers' = Tail(timers)
                /\ UNCHANGED <<nurses, submitted>>
           ELSE /\ nurses' = Delete(nurses, r.id)
                /\ submitted' = submitted \ Written(r.id)
                /\ reqs' = [reqs EXCEPT ![s] = [r EXCEPT !.pc = "del_deleted"]]
                /\ timers' = Append(Tail(timers), s)
    /\ UNCHANGED <<variant, sqlite_sequence, clock, nreq, everAssigned,
                   deletedOk>>

DeleteRespond(s) ==
    /\ Fires(s, "del_deleted")
    /\ reqs' = [reqs EXCEPT ![s] = Respond(reqs[s], 200, "", NoRow)]
    /\ deletedOk' = deletedOk \cup {reqs[s].id}
    /\ timers' = Tail(timers)
    /\ UNCHANGED <<variant, nurses, sqlite_sequence, clock, nreq,
                   everAssigned, submitted>>

(***************************************************************************)
(* The response has been sent and the handler slot is free again.          *)
(***************************************************************************)
Finish(s) ==
    /\ reqs[s].pc = "done"
    /\ reqs' = [reqs EXCEPT ![s] = IdleReq]
    /\ UNCHANGED <<variant, nurses, sqlite_sequence, clock, timers, nreq,
                   everAssigned, deletedOk, submitted>>

\* CURRENT_TIMESTAMP moves on by a second
Tick ==
    /\ Quiet
    /\ clock < MaxClock
    /\ clock' = clock + 1
    /\ UNCHANGED <<variant, nurses, sqlite_sequence, reqs, timers, nreq,
                   everAssigned, deletedOk, submitted>>

Next ==
    \/ \E s \in Slots : ListArrive(s) /\ UNCHANGED cvars
    \/ \E s \in Slots : ListRespond(s) /\ UNCHANGED cvars
    \/ \E s \in Slots, id \in IdParams : GetArrive(s, id) /\ UNCHANGED cvars
    \/ \E s \in Slots : GetRespond(s) /\ UNCHANGED cvars
    \/ \E s \in Slots, body \in Bodies : PostArrive(s, body) /\ UNCHANGED cvars
    \/ \E s \in Slots : PostFetch(s) /\ UNCHANGED cvars
    \/ \E s \in Slots : PostRespond(s) /\ UNCHANGED cvars
    \/ \E s \in Slots, id \in IdParams, body \in Bodies :
          PutArrive(s, id, body) /\ UNCHANGED cvars
    \/ \E s \in Slots : PutUpdate(s) /\ UNCHANGED cvars
    \/ \E s \in Slots : PutFetch(s) /\ UNCHANGED cvars
    \/ \E s \in Slots : PutRespond(s) /\ UNCHANGED cvars
    \/ \E s \in Slots, id \in IdParams : DeleteArrive(s, id) /\ UNCHANGED cvars
    \/ \E s \in Slots : DeleteRun(s) /\ UNCHANGED cvars
    \/ \E s \in Slots : DeleteRespond(s) /\ UNCHANGED cvars
    \/ \E s \in Slots : Finish(s) /\ UNCHANGED cvars
    \/ Tick /\ UNCHANGED cvars

Spec == Init /\ [][Next]_vars


(***************************************************************************)
(* Properties.                                                             *)
(***************************************************************************)
\* a body the API must accept: every field present and non-empty, the age
\* coercible to an integer
ValidBody(b) ==
    /\ ~Falsy(b.name) /\ ~Falsy(b.license_number) /\ ~Falsy(b.dob)
    /\ ~Falsy(b.age) /\ ~ParseInt(b.age).nan

\* a body the API must reject: a field missing or an empty string, or an
\* age that parseInt cannot read
InvalidBody(b) ==
    \/ \E f \in {"name", "license_number", "dob", "age"} :
          \/ b[f].kind = "undefined"
          \/ b[f].kind = "string" /\ b[f].str = <<>>
    \/ ParseInt(b.age).nan

\* this step is the arrival of a request of kind op at slot s
Arrives(s, op) == reqs[s].pc = "idle" /\ reqs'[s].op = op

\* C1: in every reachable state no two rows of the table have the same
\* license_number, whatever requests were interleaved.
C1_LicenseUnique ==
    \A r \in nurses, q \in nurses :
        r.license_number = q.license_number => r = q

\* two POSTs with the same license_number are handled at the same time:
\* one has inserted its row, the other is answered 400
C1_Witness ==
    \E s \in Slots, t \in Slots :
        /\ s # t
        /\ reqs[s].op = "POST" /\ reqs[t].op = "POST"
        /\ reqs[s].body.license_number = reqs[t].body.license_number
        /\ reqs[s].pc \in {"post_inserted", "post_fetched"}
        /\ SelectById(nurses, reqs[s].rowid).license_number
             = reqs[s].body.license_number.str
        /\ reqs[t].pc = "done" /\ reqs[t].status = 400

\* C2: a POST with a valid body whose license_number a stored row holds is
\* answered 400 'License number already exists' and the table is unchanged.
C2_DuplicatePost ==
    [][\A s \in Slots :
         ( /\ Arrives(s, "POST")
           /\ ValidBody(reqs'[s].body)
           /\ \E r \in nurses :
                 r.license_number = reqs'[s].body.license_number.str )
         => ( /\ reqs'[s].pc = "done"
              /\ reqs'[s].status = 400
              /\ reqs'[s].error = MsgDuplicate
              /\ nurses' = nurses )]_vars

C2_Witness ==
    \E s \in Slots :
        /\ reqs[s].op = "POST" /\ reqs[s].pc = "done"
        /\ ValidBody(reqs[s].body)
        /\ reqs[s].status = 400 /\ reqs[s].error = MsgDuplicate
        /\ \E r \in nurses :
              r.license_number = reqs[s].body.license_number.str


\* a GET answered 200 that read a row created by an answered POST and not
\* written since
FreshGet(s) ==
    /\ reqs[s].op = "GET" /\ reqs[s].pc = "done" /\ reqs[s].status = 200
    /\ reqs[s].sub # NoBody

\* C3 as stated: a GET that follows a POST answered 201, with no write to
\* the row in between, returns name, license_number, dob and age exactly
\* as the POST body had them.
C3_RoundTripExact ==
    \A s \in Slots :
        FreshGet(s) =>
            /\ reqs[s].row.name = reqs[s].sub.name.str
            /\ reqs[s].row.license_number = reqs[s].sub.license_number.str
            /\ reqs[s].row.dob = reqs[s].sub.dob.str
            /\ reqs[s].sub.age.kind = "number"
            /\ reqs[s].row.age = reqs[s].sub.age.num

\* C3 amended: name, license_number and dob come back as submitted, and
\* age comes back as the integer parseInt reads from the submitted age.
C3_RoundTripCoerced ==
    \A s \in Slots :
        FreshGet(s) =>
            /\ reqs[s].row.id = reqs[s].id
            /\ reqs[s].row.name = reqs[s].sub.name.str
            /\ reqs[s].row.license_number = reqs[s].sub.license_number.str
            /\ reqs[s].row.dob = reqs[s].sub.dob.str
            /\ ~ParseInt(reqs[s].sub.age).nan
            /\ reqs[s].row.age = ParseInt(reqs[s].sub.age).val

\* a row posted with a string age was read back
C3_Witness ==
    \E s \in Slots : FreshGet(s) /\ reqs[s].sub.age.kind = "string"

\* the status a PUT on an id missing from the table is answered with:
\* backend/server.js validates the body before it looks the row up
MissingIdStatus(r) ==
    IF variant = "backend" /\ MissingBackend(r.body) THEN 400 ELSE 404

\* C4 as stated: a PUT whose id is not in the table is answered 404
\* whatever its body, and no step of it changes the table.
C4_MissingIdAlways404 ==
    [][\A s \in Slots :
         ( /\ reqs'[s] # reqs[s]
           /\ reqs'[s].op = "PUT" /\ reqs'[s].absent )
         => ( /\ nurses' = nurses
              /\ reqs'[s].pc = "done" => reqs'[s].status = 404 )]_vars

\* C4 amended: a PUT whose id is not in the table is answered 404, except
\* that backend/server.js answers 400 when the body fails its validation;
\* no step of the PUT changes the table.
C4_MissingId ==
    [][\A s \in Slots :
         ( /\ reqs'[s] # reqs[s]
           /\ reqs'[s].op = "PUT" /\ reqs'[s].absent )
         => ( /\ nurses' = nurses
              /\ reqs'[s].pc = "done" =>
                    reqs'[s].status = MissingIdStatus(reqs'[s]) )]_vars

\* a PUT with a valid body on a missing id was answered 404
C4_Witness ==
    \E s \in Slots :
        /\ reqs[s].op = "PUT" /\ reqs[s].pc = "done" /\ reqs[s].absent
        /\ ValidBody(reqs[s].body)
        /\ reqs[s].status = 404 /\ reqs[s].error = MsgNotFound

C6_InvalidBodyRejected ==
    [][\A s \in Slots :
         ( /\ reqs'[s] # reqs[s]
           /\ reqs'[s].op \in {"POST", "PUT"}
           /\ InvalidBody(reqs'[s].body) )
         => ( /\ nurses' = nurses
              /\ reqs'[s].pc = "done" =>
                    \/ reqs'[s].status = 400
                    \/ reqs'[s].op = "PUT" /\ reqs'[s].status = 404 )]_vars

\* this step runs the UPDATE statement of the PUT in slot s, whose row was
\* found by the existence check and is still there
UpdateRuns(s) ==
    /\ \/ variant = "root" /\ Arrives(s, "PUT") /\ ~MissingRoot(reqs'[s].body)
       \/ variant = "backend" /\ reqs[s].pc = "put_checked"
          /\ Found(reqs[s].row) /\ reqs'[s] # reqs[s]
    /\ Found(SelectById(nurses, reqs'[s].id))

\* C7: a valid PUT on an existing id whose license_number another row holds
\* is answered 400 'License number already exists' and changes no row; a
\* valid PUT that keeps the row's own license_number is not answered as a
\* duplicate and its values are written.
C7_DuplicatePut ==
    [][\A s \in Slots :
         (UpdateRuns(s) /\ ValidBody(reqs'[s].body)) =>
            LET id == reqs'[s].id
                lic == reqs'[s].body.license_number.str
            IN  /\ (\E r \in nurses : r.id # id /\ r.license_number = lic)
                   => ( /\ reqs'[s].pc = "done"
                        /\ reqs'[s].status = 400
                        /\ reqs'[s].error = MsgDuplicate
                        /\ nurses' = nurses )
                /\ SelectById(nurses, id).license_number = lic
                   => ( /\ reqs'[s].error = ""
                        /\ reqs'[s].status # 400
                        /\ SelectById(nurses', id).license_number = lic
                        /\ SelectById(nurses', id).name
                             = reqs'[s].body.name.str )]_vars

\* a valid PUT on a stored row was answered as a duplicate of another row
C7_Witness ==
    \E s \in Slots :
        /\ reqs[s].op = "PUT" /\ reqs[s].pc = "done"
        /\ ValidBody(reqs[s].body)
        /\ reqs[s].status = 400 /\ reqs[s].error = MsgDuplicate
        /\ Found(SelectById(nurses, reqs[s].id))
        /\ \E r \in nurses :
              /\ r.id # reqs[s].id
              /\ r.license_number = reqs[s].body.license_number.str

\* C8: the id an INSERT assigns was never assigned before, also when rows
\* (the one with the highest id included) were deleted or seeded, and no
\* step changes the id of a stored row: a step adds rows with new ids or
\* removes rows, and a PUT leaves the set of ids as it is.
C8_IdsNeverReused ==
    [][/\ \A r \in nurses' : r.id \notin Ids(nurses) => r.id \notin everAssigned
       /\ Cardinality(Ids(nurses')) = Cardinality(nurses')
       /\ \A s \in Slots :
             (reqs'[s] # reqs[s] /\ reqs'[s].op = "PUT")
                => Ids(nurses') = Ids(nurses)
       /\ everAssigned \subseteq everAssigned'
       /\ Ids(nurses') \subseteq everAssigned']_vars

\* a POST got its id after the row with the highest id had been deleted
C8_Witness ==
    \E s \in Slots :
        /\ reqs[s].op = "POST" /\ reqs[s].status = 201
        /\ reqs[s].rowid - 1 \in deletedOk
        /\ reqs[s].rowid - 1 \notin Ids(nurses)
        /\ reqs[s].rowid \in Ids(nurses)


\* C9: the list GET /api/nurses answers with holds every row of the table
\* at the time of its SELECT exactly once and nothing else, in strictly
\* descending order of id, and the answer is that list, status 200.
C9_ListComplete ==
    [][\A s \in Slots :
         /\ Arrives(s, "LIST") =>
               LET l == reqs'[s].rows
               IN  /\ Len(l) = Cardinality(nurses)
                   /\ {l[i] : i \in 1..Len(l)} = nurses
                   /\ \A i \in 1..Len(l), j \in 1..Len(l) :
                         i < j => l[i].id > l[j].id
         /\ (reqs'[s].op = "LIST" /\ reqs'[s].pc = "done") =>
               /\ reqs'[s].status = 200
               /\ reqs[s].op = "LIST" => reqs'[s].rows = reqs[s].rows]_vars

\* a list of several rows was answered after a row had been deleted
C9_Witness ==
    \E s \in Slots :
        /\ reqs[s].op = "LIST" /\ reqs[s].pc = "done"
        /\ Len(reqs[s].rows) >= 2
        /\ deletedOk # {}

\* the row a successful UPDATE leaves, apart from age
Replaced(old, new, b, now) ==
    /\ new.name = b.name.str
    /\ new.license_number = b.license_number.str
    /\ new.dob = b.dob.str
    /\ new.updated_at = now
    /\ new.id = old.id
    /\ new.created_at = old.created_at

\* this step is a successful UPDATE by the PUT in slot s
UpdateDone(s) == UpdateRuns(s) /\ reqs'[s].error = ""

\* C10 as stated: a successful PUT sets name, license_number, dob and age
\* of the row to the values of the request and updated_at to the current
\* time, and leaves its id, its created_at and every other row unchanged.
C10_PutReplacesExact ==
    [][\A s \in Slots :
         UpdateDone(s) =>
            LET old == SelectById(nurses, reqs'[s].id)
                new == SelectById(nurses', reqs'[s].id)
            IN  /\ Replaced(old, new, reqs'[s].body, clock)
                /\ reqs'[s].body.age.kind = "number"
                /\ new.age = reqs'[s].body.age.num
                /\ nurses' \ {new} = nurses \ {old}]_vars

\* C10 amended: as stated, with age set to the integer parseInt reads from
\* the age of the request.
C10_PutReplaces ==
    [][\A s \in Slots :
         UpdateDone(s) =>
            LET old == SelectById(nurses, reqs'[s].id)
                new == SelectById(nurses', reqs'[s].id)
            IN  /\ Replaced(old, new, reqs'[s].body, clock)
                /\ new.age = ParseInt(reqs'[s].body.age).val
                /\ nurses' \ {new} = nurses \ {old}]_vars

\* a PUT was answered 200 with a row updated after the second it was
\* created in, while the table holds other rows
C10_Witness ==
    \E s \in Slots :
        /\ reqs[s].op = "PUT" /\ reqs[s].pc = "done" /\ reqs[s].status = 200
        /\ reqs[s].row.updated_at > reqs[s].row.created_at
        /\ reqs[s].row \in nurses
        /\ Cardinality(nurses) >= 2


\* this step runs the DELETE statement of the DELETE in slot s, whose row
\* was found by the existence check
DeleteRuns(s) ==
    \/ variant = "root" /\ Arrives(s, "DELETE") /\ ~reqs'[s].absent
    \/ variant = "backend" /\ reqs[s].pc = "del_checked"
       /\ Found(reqs[s].row) /\ reqs'[s] # reqs[s]

\* C11: a DELETE whose id is in the table removes the row with that id and
\* no other row, and it is the only step of the request that writes; a
\* DELETE whose id is not in the table is answered 404 'Nurse not found'
\* and no step of it changes the table.
C11_DeleteFrame ==
    [][\A s \in Slots :
         ( /\ reqs'[s] # reqs[s]
           /\ reqs'[s].op = "DELETE" )
         => LET id == reqs'[s].id
            IN  /\ DeleteRuns(s) =>
                      /\ nurses' = {r \in nurses : r.id # id}
                      /\ id \notin Ids(nurses')
                      /\ reqs'[s].pc = "done" => reqs'[s].status = 200
                /\ ~DeleteRuns(s) => nurses' = nurses
                /\ reqs'[s].absent =>
                      /\ ~DeleteRuns(s)
                      /\ reqs'[s].pc = "done" =>
                            /\ reqs'[s].status = 404
                            /\ reqs'[s].error = MsgNotFound
                /\ (~reqs'[s].absent /\ reqs'[s].pc = "done") =>
                      /\ reqs'[s].status = 200
                      /\ id \notin Ids(nurses')]_vars

\* a DELETE of a stored row was answered 200 and other rows are still there
C11_Witness ==
    \E s \in Slots :
        /\ reqs[s].op = "DELETE" /\ reqs[s].pc = "done"
        /\ reqs[s].status = 200 /\ ~reqs[s].absent
        /\ reqs[s].id \notin Ids(nurses)
        /\ nurses # {}


\* C16: in backend/server.js every PUT answered 200 carries the stored row
\* of its id as payload, and that row holds the values the PUT wrote or
\* those of a later write; a PUT whose row a concurrent DELETE removed is
\* not answered 200.
C16_PutAnswersRecord ==
    \A s \in Slots :
        ( /\ variant = "backend"
          /\ reqs[s].op = "PUT" /\ reqs[s].pc = "done"
          /\ reqs[s].status = 200 )
        => /\ Found(reqs[s].row)
           /\ reqs[s].row.id = reqs[s].id


\* row holds the four editable fields of body b, the age as parseInt reads
\* it (the number itself when b.age is an integer)
Holds(row, b) ==
    /\ row.name = b.name.str
    /\ row.license_number = b.license_number.str
    /\ row.dob = b.dob.str
    /\ row.age = ParseInt(b.age).val

\* C17: a valid PUT on a stored row whose license_number no other row holds
\* writes all four of its fields and is answered 200, also while another
\* PUT on the same id is being handled; and whenever a stored row changes,
\* the new row holds the four fields of the one PUT whose UPDATE ran in
\* that step, never fields of two requests.
C17_LastWriteWins ==
    [][/\ \A s \in Slots :
            /\ ( /\ UpdateRuns(s) /\ ValidBody(reqs'[s].body)
                 /\ ~UniqueViolation(nurses,
                         reqs'[s].body.license_number.str, reqs'[s].id) )
               => /\ reqs'[s].error = ""
                  /\ Holds(SelectById(nurses', reqs'[s].id), reqs'[s].body)
                  /\ reqs'[s].pc = "done" => reqs'[s].status = 200
            /\ ( /\ reqs[s].op = "PUT"
                 /\ reqs[s].pc \in {"put_updated", "put_fetched"}
                 /\ reqs'[s].pc = "done" )
               => reqs'[s].status = 200
       /\ \A r \in nurses' :
            (r \notin nurses /\ r.id \in Ids(nurses))
               => \E s \in Slots :
                     /\ UpdateDone(s) /\ reqs'[s].id = r.id
                     /\ Holds(r, reqs'[s].body)]_vars

\* two valid PUTs with different bodies were handled at the same time on
\* one id: both UPDATEs have run, one PUT is answered 200 and the row
\* holds the fields of the other
C17_Witness ==
    \E s \in Slots, t \in Slots :
        /\ s # t
        /\ reqs[s].op = "PUT" /\ reqs[t].op = "PUT"
        /\ reqs[s].id = reqs[t].id
        /\ ValidBody(reqs[s].body) /\ ValidBody(reqs[t].body)
        /\ reqs[s].body # reqs[t].body
        /\ reqs[s].pc = "done" /\ reqs[s].status = 200
        /\ reqs[t].pc = "put_fetched"
        /\ Holds(SelectById(nurses, reqs[s].id), reqs[t].body)


(***************************************************************************)
(* Sorting and searching in the clients.                                   *)
(***************************************************************************)
Columns == {"name", "license_number", "dob", "age"}

\* part_000 setupSorting: the click listener of a sortable header
HeaderClick(column) ==
    LET direction ==
            IF page.currentSortColumn = column
            THEN (IF page.sortDirection = "asc" THEN "desc" ELSE "asc")
            ELSE "asc"
    IN  page' = [page EXCEPT
                   !.sortDirection = direction,
                   !.currentSortColumn = column,
                   !.nurses = sortNurses(page.nurses, column, direction)]

\* App.jsx: the table and its headers are rendered
TableShown ==
    /\ ~app.loading /\ app.error = "null"
    /\ app.nurses # <<>>
    /\ filteredNurses(app.nurses, app.debouncedSearchTerm) # <<>>

\* App.jsx handleSort, called by the click on a header
handleSortAlwaysDesc(key) ==
    /\ TableShown
    /\ app' = [app EXCEPT
                  !.sortConfig = [key |-> key, direction |-> "desc"],
                  !.nurses = ArraySort("app", app.nurses, key, "desc")]

handleSort(key) ==
    /\ TableShown
    /\ LET direction ==
               IF app.sortConfig.key = key /\ app.sortConfig.direction = "asc"
               THEN "desc" ELSE "asc"
       IN  app' = [app EXCEPT
                     !.sortConfig = [key |-> key, direction |-> direction],
                     !.nurses = ArraySort("app", app.nurses, key, direction)]

\* App.jsx: onChange of the search input
setSearchTerm(value) ==
    /\ app.searchTerm # value
    /\ app' = [app EXCEPT !.searchTerm = value]

\* App.jsx useDebounce: the 300 ms timer set by the last change fires
setDebouncedValue ==
    /\ app.debouncedSearchTerm # app.searchTerm
    /\ app' = [app EXCEPT !.debouncedSearchTerm = app.searchTerm]

(***************************************************************************)
(* The sort/filter engine on its own: a client that holds some collection  *)
(* and whose user clicks headers and types in the search box.              *)
(***************************************************************************)
sbo == <<98, 111>>                                         \* "bo"
srn2 == <<114, 110, 45, 50>>                               \* "rn-2"
sCy == <<67, 121>>                                         \* "Cy"
sLPN7 == <<76, 80, 78, 45, 55>>                            \* "LPN-7"
sDob10000 == <<43, 48, 49, 48, 48, 48, 48, 45, 48, 49, 45, 48, 49>>
                                                           \* "+010000-01-01"
sannlee == <<97, 110, 110, 32, 108, 101, 101>>             \* "ann lee"
sRN12 == <<82, 78, 45, 49, 50>>                            \* "RN-12"

\* records a collection may hold: names and license numbers that differ in
\* case, an age of one digit, a year of more than four digits, and two
\* records that tie on name, dob and age
Pool ==
    { Row(1, sAnnLee, sRN1, sDob1990, 34, 0, 0),
      Row(2, sbo, srn2, sDob1985, 40, 0, 0),
      Row(3, sCy, sLPN7, sDob10000, 9, 0, 0),
      Row(4, sannlee, sRN12, sDob1990, 34, 0, 0) }

\* the sequences of up to MaxLen different records
Collections ==
    UNION { {c \in [1..n -> Pool] : \A i \in 1..n, j \in 1..n :
                                        c[i] = c[j] => i = j}
            : n \in 0..MaxLen }

\* what the user types in the search box
Terms ==
    { <<>>, <<114, 110>>, <<78, 45, 49>>, <<51, 52>>, <<49, 57, 57, 48>>,
      <<76, 69, 69>>, <<120>> }      \* "", "rn", "N-1", "34", "1990", "LEE", "x"

EngineInit ==
    /\ variant \in {"backend", "root"}
    /\ nurses = {} /\ sqlite_sequence = 0 /\ clock = 0
    /\ reqs = [s \in Slots |-> IdleReq] /\ timers = <<>> /\ nreq = 0
    /\ everAssigned = {} /\ deletedOk = {} /\ submitted = {}
    /\ calls = <<>>
    /\ \E c \in Collections :
          /\ page = IF variant = "root"
                    THEN [PageInit EXCEPT !.nurses = c] ELSE PageInit
          /\ app = IF variant = "backend"
                   THEN [AppInit EXCEPT !.nurses = c, !.loading = FALSE]
                   ELSE AppInit

EngineNext ==
    \/ \E column \in Columns :
          /\ variant = "root" /\ HeaderClick(column)
          /\ UNCHANGED <<svars, app, calls>>
    \/ \E key \in Columns :
          /\ variant = "backend" /\ handleSort(key)
          /\ UNCHANGED <<svars, page, calls>>
    \/ \E value \in Terms :
          /\ variant = "backend" /\ setSearchTerm(value)
          /\ UNCHANGED <<svars, page, calls>>
    \/ /\ variant = "backend" /\ setDebouncedValue
       /\ UNCHANGED <<svars, page, calls>>

EngineSpec == EngineInit /\ [][EngineNext]_vars


\* q occurs in s when the case of letters is ignored
OccursIgnoringCase(s, q) ==
    \E i \in 0..(Len(s) - Len(q)) :
        \A j \in 1..Len(q) : ToLowerCase(s)[i + j] = ToLowerCase(q)[j]

\* the record passes the query: the query is a substring, case ignored, of
\* the name or the license number, or its lower-case form is a substring of
\* the dob string as stored or of the decimal string of the age
Passes(r, q) ==
    \/ OccursIgnoringCase(r.name, q)
    \/ OccursIgnoringCase(r.license_number, q)
    \/ \E i \in 0..(Len(r.dob) - Len(q)) :
          \A j \in 1..Len(q) : r.dob[i + j] = ToLowerCase(q)[j]
    \/ \E i \in 0..(Len(NumberToString(r.age)) - Len(q)) :
          \A j \in 1..Len(q) : NumberToString(r.age)[i + j] = ToLowerCase(q)[j]

\* the k-th smallest element of a set of numbers
Nth(K, k) == CHOOSE i \in K : Cardinality({j \in K : j < i}) = k - 1

\* C12: the rows the React client shows for a query are exactly the records
\* of the collection that pass the query, in the order they have in the
\* collection; with an empty query they are the whole collection.
C12_FilterExact ==
    LET q == app.debouncedSearchTerm
        shown == filteredNurses(app.nurses, q)
        K == {i \in 1..Len(app.nurses) : Passes(app.nurses[i], q)}
    IN  /\ Len(shown) = Cardinality(K)
        /\ \A k \in 1..Len(shown) : shown[k] = app.nurses[Nth(K, k)]
        /\ q = <<>> => shown = app.nurses

\* a query in capitals keeps a record in the middle of the collection and
\* drops the records around it
C12_Witness ==
    LET shown == filteredNurses(app.nurses, app.debouncedSearchTerm)
    IN  /\ app.debouncedSearchTerm = <<76, 69, 69>>
        /\ Len(app.nurses) = 3
        /\ shown = <<app.nurses[2]>>


\* the collection, the sort column and the direction of the client that is
\* running: the page with server.js, the React client with backend/server.js
Collection == IF variant = "root" THEN page.nurses ELSE app.nurses
SortColumn ==
    IF variant = "root" THEN page.currentSortColumn ELSE app.sortConfig.key
SortDirection ==
    IF variant = "root" THEN page.sortDirection ELSE app.sortConfig.direction

Occurrences(arr, r) == Cardinality({i \in 1..Len(arr) : arr[i] = r})

\* b holds the records of a, each as often as a does
IsPermutation(a, b) ==
    /\ Len(a) = Len(b)
    /\ \A i \in 1..Len(a) : Occurrences(a, a[i]) = Occurrences(b, a[i])

Reverse(arr) == [i \in 1..Len(arr) |-> arr[Len(arr) + 1 - i]]

NoAgeTies(arr) ==
    \A i \in 1..Len(arr), j \in 1..Len(arr) : arr[i].age = arr[j].age => i = j

\* C13: a click on the age header that sorts ascending gives a permutation
\* of the collection in ascending order of age; the next click on it, which
\* sorts descending, gives a permutation that is, when no two records have
\* the same age, exactly the ascending sequence reversed.
C13_AgeAscThenDesc ==
    [][/\ ( /\ SortColumn' = "age" /\ SortDirection' = "asc"
            /\ <<SortColumn, SortDirection>> # <<"age", "asc">> )
          => /\ IsPermutation(Collection', Collection)
             /\ \A i \in 1..Len(Collection'), j \in 1..Len(Collection') :
                   i < j => Collection'[i].age <= Collection'[j].age
       /\ ( /\ SortColumn = "age" /\ SortDirection = "asc"
            /\ SortColumn' = "age" /\ SortDirection' = "desc" )
          => /\ IsPermutation(Collection', Collection)
             /\ NoAgeTies(Collection) => Collection' = Reverse(Collection)]_vars

\* three records of different ages have been sorted by age ascending and
\* then descending, which changed their order
C13_Witness ==
    /\ SortColumn = "age" /\ SortDirection = "desc"
    /\ Len(Collection) = 3 /\ NoAgeTies(Collection)
    /\ Collection[1].age = 40 /\ Collection[3].age = 9


\* the sort column and direction a click on the header of column leaves
AfterClick(column) ==
    /\ SortColumn' = column
    /\ SortDirection' = IF SortColumn # column THEN "asc"
                        ELSE IF SortDirection = "asc" THEN "desc" ELSE "asc"

\* C14: both clients start with no sort column; a click on a header other
\* than the current sort column selects it with direction ascending, a
\* click on the current sort column flips the direction, and nothing but a
\* click changes column or direction.
C14_SortStateMachine ==
    /\ SortColumn = "null"
    /\ [][/\ \A column \in Columns :
               /\ (variant = "root" /\ HeaderClick(column)) => AfterClick(column)
               /\ (variant = "backend" /\ handleSort(column)) => AfterClick(column)
          /\ <<SortColumn, SortDirection>>' # <<SortColumn, SortDirection>>
               => \E column \in Columns :
                     \/ variant = "root" /\ HeaderClick(column)
                     \/ variant = "backend" /\ handleSort(column)]_vars

\* the React client's sort was flipped to descending by a second click on
\* the dob header
C14_Witness ==
    /\ variant = "backend"
    /\ app.sortConfig = [key |-> "dob", direction |-> "desc"]
    /\ Len(app.nurses) = 3
    /\ app.nurses[3].dob = sDob10000


\* a comes before b in the order the column stands for: the integer age,
\* the calendar date of dob, the name or license number without regard to
\* case
Before(a, b, column) ==
    IF column = "age" THEN a.age < b.age
    ELSE IF column = "dob" THEN NewDate(a.dob).val < NewDate(b.dob).val
    ELSE StringLess(ToLowerCase(a[column]), ToLowerCase(b[column]))

PositionIn(arr, r) == CHOOSE i \in 1..Len(arr) : arr[i] = r

\* sorted is arr in the order of the column, inverted for "desc", with the
\* records that compare equal in the order they have in arr
SortedBy(sorted, arr, column, direction) ==
    /\ IsPermutation(sorted, arr)
    /\ \A i \in 1..Len(sorted), j \in 1..Len(sorted) :
          i < j =>
             LET x == sorted[i]
                 y == sorted[j]
             IN  /\ IF direction = "asc" THEN ~Before(y, x, column)
                                         ELSE ~Before(x, y, column)
                 /\ (~Before(x, y, column) /\ ~Before(y, x, column))
                       => PositionIn(arr, x) < PositionIn(arr, y)

\* C15: the collection a header click leaves is the old collection sorted
\* by the clicked column: ages as integers, dobs as calendar dates, names
\* and license numbers as strings without regard to case; inverted for
\* "desc"; records that compare equal keep their order.
C15_SortOrder ==
    [][\A column \in Columns :
          ( \/ variant = "root" /\ HeaderClick(column)
            \/ variant = "backend" /\ handleSort(column) )
          => SortedBy(Collection', Collection, column, SortDirection')]_vars


(***************************************************************************)
(* The clients and their API calls.  A call is sent, reaches a handler of  *)
(* the server, is answered and is delivered to the code that awaits it;    *)
(* calls overtake each other on the way.  The page part_000 talks to       *)
(* server.js and App.jsx to backend/server.js.                             *)
(***************************************************************************)
NewCall(op, id, body) ==
    [op |-> op, id |-> id, body |-> body, stage |-> "sent", slot |-> 0,
     status |-> 0, error |-> "", row |-> NoRow, rows |-> <<>>]

RemoveAt(seq, i) == SubSeq(seq, 1, i - 1) \o SubSeq(seq, i + 1, Len(seq))

\* a call is made only if the server of the model can still receive its
\* request, and no more calls are in flight than the server receives
CanCall ==
    /\ Len(calls) < MaxRequests
    /\ nreq + Cardinality({i \in 1..Len(calls) : calls[i].stage = "sent"})
          < MaxRequests

\* response.ok
Ok(call) == call.status >= 200 /\ call.status <= 299

\* String.prototype.trim
RECURSIVE TrimEnd(_)
TrimEnd(s) ==
    IF s # <<>> /\ IsWhite(s[Len(s)])
    THEN TrimEnd(SubSeq(s, 1, Len(s) - 1)) ELSE s

Trim(s) == TrimEnd(SkipWhite(s))

sBoPadded == <<32, 66, 111, 32>>                           \* " Bo "
s40 == <<52, 48>>                                          \* "40"
s34 == <<51, 52>>                                          \* "34"

\* what the user puts in the four inputs of the form: a new record and the
\* record of the used database file
Forms ==
    { [name |-> sBoPadded, license_number |-> sRN2, dob |-> sDob1985,
       age |-> s40],
      [name |-> sAnnLee, license_number |-> sRN1, dob |-> sDob1990,
       age |-> s34] }

\* the age both clients derive from a dob: today is the local date of
\* new Date(); NaN when the dob is no date
DerivedAge(value, today, tz) ==
    LET birthDate == LocalDate(value, tz)
        age == today.y - birthDate.y
        monthDiff == today.m - birthDate.m
    IN  IF birthDate.nan THEN [nan |-> TRUE, val |-> 0]
        ELSE IF monthDiff < 0 \/ (monthDiff = 0 /\ today.d < birthDate.d)
        THEN [nan |-> FALSE, val |-> age - 1]
        ELSE [nan |-> FALSE, val |-> age]

sNaN == <<78, 97, 78>>                                     \* "NaN"

\* part_000: the user changes an input of the form; the change listener of
\* nurseDob sets nurseAge, to '' unless the age is above 0
PageInput(name, value, today, tz) ==
    /\ page.modalActive
    /\ LET age == DerivedAge(value, today, tz)
       IN  page' = [page EXCEPT
                      !.form = IF name = "dob"
                               THEN [page.form EXCEPT
                                       !.dob = value,
                                       !.age = IF ~age.nan /\ age.val > 0
                                               THEN NumberToString(age.val)
                                               ELSE <<>>]
                               ELSE [page.form EXCEPT ![name] = value]]
    /\ UNCHANGED <<svars, app, calls>>

\* App.jsx NurseModal handleChange
handleChange(name, value, today, tz) ==
    /\ app.isModalOpen
    /\ LET age == DerivedAge(value, today, tz)
       IN  app' = [app EXCEPT
                     !.formData =
                         IF name = "dob" /\ value # <<>>
                         THEN [app.formData EXCEPT
                                 !.dob = value,
                                 !.age = IF age.nan THEN sNaN
                                         ELSE NumberToString(age.val)]
                         ELSE [app.formData EXCEPT ![name] = value]]
    /\ UNCHANGED <<svars, page, calls>>

(***************************************************************************)
(* The transport and the server's side of a call.                          *)
(***************************************************************************)
\* the request of call i reaches handler s of the server
Reach(i, s) ==
    /\ calls[i].stage = "sent"
    /\ calls' = [calls EXCEPT ![i].stage = "handling", ![i].slot = s]
    /\ \/ calls[i].op = "LIST" /\ ListArrive(s)
       \/ calls[i].op = "POST" /\ PostArrive(s, calls[i].body)
       \/ calls[i].op = "PUT" /\ PutArrive(s, calls[i].id, calls[i].body)
       \/ calls[i].op = "DELETE" /\ DeleteArrive(s, calls[i].id)
    /\ UNCHANGED <<page, app>>

\* the message of the TypeError fetch rejects with
MsgNetwork == "Failed to fetch"

\* the server cannot be reached: the fetch of call i rejects
NetworkFail(i) ==
    /\ calls[i].stage = "sent"
    /\ calls' = [calls EXCEPT ![i].stage = "answered",
                              ![i].error = MsgNetwork]
    /\ UNCHANGED <<svars, page, app>>

\* a step of a handler of backend/server.js between two of its queries
ServerStep(s) ==
    /\ \/ ListRespond(s)
       \/ PostFetch(s) \/ PostRespond(s)
       \/ PutUpdate(s) \/ PutFetch(s) \/ PutRespond(s)
       \/ DeleteRun(s) \/ DeleteRespond(s)
    /\ UNCHANGED cvars

\* the response of handler s leaves the server
Answer(s) ==
    /\ Finish(s)
    /\ \E i \in 1..Len(calls) :
          /\ calls[i].stage = "handling" /\ calls[i].slot = s
          /\ calls' = [calls EXCEPT
                         ![i] = [@ EXCEPT !.stage = "answered", !.slot = 0,
                                          !.status = reqs[s].status,
                                          !.error = reqs[s].error,
                                          !.row = reqs[s].row,
                                          !.rows = reqs[s].rows]]
    /\ UNCHANGED <<page, app>>

(***************************************************************************)
(* part_000, the page served by server.js.                                 *)
(***************************************************************************)
\* no overlay covers the table, its headers and the "Add" button
PageFree ==
    ~page.loadingShown /\ ~page.modalActive /\ ~page.deleteModalActive

\* part_000 closeModal
closeModal(p) ==
    [p EXCEPT !.modalActive = FALSE, !.editingNurseId = 0,
              !.form = EmptyForm]

\* part_000 closeDeleteModal
closeDeleteModal(p) ==
    [p EXCEPT !.deleteModalActive = FALSE, !.nurseToDelete = 0]

\* part_000: the "Add" button, openModal()
PageOpenAdd ==
    /\ PageFree
    /\ page' = [page EXCEPT !.editingNurseId = 0, !.modalActive = TRUE,
                            !.form = EmptyForm]
    /\ UNCHANGED <<svars, app, calls>>

\* the inputs filled with the fields of a record
FormOf(nurse) ==
    [name |-> nurse.name, license_number |-> nurse.license_number,
     dob |-> nurse.dob, age |-> NumberToString(nurse.age)]

\* part_000 editNurse: the edit button of a row; nurses.find gives the
\* first record of the id
editNurse(id) ==
    /\ PageFree
    /\ \E i \in 1..Len(page.nurses) :
          /\ page.nurses[i].id = id
          /\ \A j \in 1..(i - 1) : page.nurses[j].id # id
          /\ page' = [page EXCEPT !.editingNurseId = id, !.modalActive = TRUE,
                                  !.form = FormOf(page.nurses[i])]
    /\ UNCHANGED <<svars, app, calls>>

\* part_000: the close and cancel buttons of the form
PageCloseModal ==
    /\ page.modalActive
    /\ page' = closeModal(page)
    /\ UNCHANGED <<svars, app, calls>>

\* part_000: the user has typed into the four inputs of the form, the age
\* last, so that it is not the one derived from the dob
PageFill(form) ==
    /\ page.modalActive /\ page.form # form
    /\ page' = [page EXCEPT !.form = form]
    /\ UNCHANGED <<svars, app, calls>>

\* part_000 handleFormSubmit up to its await: the body read from the form
PageFormData(form) ==
    LET age == ParseIntStr(form.age)
    IN  [name |-> Trim(form.name),
         license_number |-> Trim(form.license_number),
         dob |-> form.dob, age |-> age]

PageFormValid(d) ==
    /\ d.name # <<>> /\ d.license_number # <<>> /\ d.dob # <<>>
    /\ ~d.age.nan /\ d.age.val # 0

handleFormSubmit ==
    /\ page.modalActive /\ ~page.submitDisabled
    /\ CanCall
    /\ LET d == PageFormData(page.form)
           body == Body(JsStr(d.name), JsStr(d.license_number), JsStr(d.dob),
                        JsNum(d.age.val))
       IN  IF ~PageFormValid(d)
           THEN /\ page' = [page EXCEPT !.toast = "Please fill in all fields"]
                /\ UNCHANGED calls
           ELSE /\ page' = [page EXCEPT !.submitDisabled = TRUE]
                /\ calls' = Append(calls,
                              IF page.editingNurseId # 0
                              THEN NewCall("PUT", page.editingNurseId, body)
                              ELSE NewCall("POST", 0, body))
    /\ UNCHANGED <<svars, app>>

\* Array.prototype.findIndex by id; 0 when there is none
FindIndex(arr, id) ==
    IF \E i \in 1..Len(arr) : arr[i].id = id
    THEN CHOOSE i \in 1..Len(arr) :
            arr[i].id = id /\ \A j \in 1..(i - 1) : arr[j].id # id
    ELSE 0

\* part_000 handleFormSubmit after its await: editingNurseId is read again
PageSaveDone(i) ==
    /\ calls[i].stage = "answered" /\ calls[i].op \in {"POST", "PUT"}
    /\ calls' = RemoveAt(calls, i)
    /\ LET index == FindIndex(page.nurses, page.editingNurseId)
           patched ==
               IF page.editingNurseId # 0
               THEN (IF index # 0
                     THEN [page.nurses EXCEPT ![index] = calls[i].row]
                     ELSE page.nurses)
               ELSE <<calls[i].row>> \o page.nurses
       IN  IF Ok(calls[i])
           THEN page' = [closeModal(page) EXCEPT
                           !.nurses = patched,
                           !.toast = IF page.editingNurseId # 0
                                     THEN "Nurse updated successfully"
                                     ELSE "Nurse added successfully",
                           !.submitDisabled = FALSE]
           ELSE page' = [page EXCEPT
                           !.toast =
                               IF calls[i].error # "" THEN calls[i].error
                               ELSE "Failed to save nurse. Please try again.",
                           !.submitDisabled = FALSE]
    /\ UNCHANGED <<svars, app>>

\* part_000 confirmDelete: the delete button of a row
confirmDelete(id) ==
    /\ PageFree
    /\ \E i \in 1..Len(page.nurses) : page.nurses[i].id = id
    /\ page' = [page EXCEPT !.nurseToDelete = id,
                            !.deleteModalActive = TRUE,
                            !.confirmDeleteId = id]
    /\ UNCHANGED <<svars, app, calls>>

\* part_000: the cancel button of the delete dialog
PageCloseDeleteModal ==
    /\ page.deleteModalActive
    /\ page' = closeDeleteModal(page)
    /\ UNCHANGED <<svars, app, calls>>

\* part_000 deleteNurse up to its await: the confirm button, which stays
\* enabled while the dialog is shown
PageDeleteNurse ==
    /\ page.deleteModalActive
    /\ CanCall
    /\ calls' = Append(calls, NewCall("DELETE", page.confirmDeleteId, NoBody))
    /\ UNCHANGED <<svars, page, app>>

\* part_000 deleteNurse: the then and the catch of deletePromise
PageDeleteDone(i) ==
    /\ calls[i].stage = "answered" /\ calls[i].op = "DELETE"
    /\ calls' = RemoveAt(calls, i)
    /\ IF Ok(calls[i])
       THEN page' = [closeDeleteModal(page) EXCEPT
                       !.nurses = SelectSeq(page.nurses,
                                     LAMBDA n : n.id # calls[i].id),
                       !.toast = "Nurse deleted successfully"]
       ELSE page' = [closeDeleteModal(page) EXCEPT
                       !.toast = "Failed to delete nurse. Please try again."]
    /\ UNCHANGED <<svars, app>>

\* part_000 fetchNurses after its await
PageListDone(i) ==
    /\ calls[i].stage = "answered" /\ calls[i].op = "LIST"
    /\ calls' = RemoveAt(calls, i)
    /\ IF Ok(calls[i])
       THEN page' = [page EXCEPT !.nurses = calls[i].rows,
                                 !.loadingShown = FALSE]
       ELSE page' = [page EXCEPT
                       !.toast = "Failed to load nurses. Please try again.",
                       !.loadingShown = FALSE]
    /\ UNCHANGED <<svars, app>>

(***************************************************************************)
(* App.jsx, the client of backend/server.js.                               *)
(***************************************************************************)
\* App.jsx openAddModal
openAddModal ==
    /\ ~app.isModalOpen
    /\ app' = [app EXCEPT !.editingNurse = NoRow, !.isModalOpen = TRUE,
                          !.formError = "", !.formData = EmptyForm]
    /\ UNCHANGED <<svars, page, calls>>

\* the rows of the table
ShownRows == filteredNurses(app.nurses, app.debouncedSearchTerm)

\* App.jsx openEditModal: the edit button of a row
openEditModal(k) ==
    /\ TableShown /\ ~app.isModalOpen
    /\ k \in 1..Len(ShownRows)
    /\ app' = [app EXCEPT !.editingNurse = ShownRows[k], !.isModalOpen = TRUE,
                          !.formError = "",
                          !.formData = FormOf(ShownRows[k])]
    /\ UNCHANGED <<svars, page, calls>>

\* App.jsx closeModal
AppCloseModal ==
    /\ app.isModalOpen
    /\ app' = [app EXCEPT !.isModalOpen = FALSE, !.editingNurse = NoRow,
                          !.formError = "", !.formData = EmptyForm,
                          !.submitterOpen = FALSE]
    /\ UNCHANGED <<svars, page, calls>>

\* App.jsx: the user has typed into the four inputs of the form, the age
\* last, so that it is not the one derived from the dob
AppFill(form) ==
    /\ app.isModalOpen /\ app.formData # form
    /\ app' = [app EXCEPT !.formData = form]
    /\ UNCHANGED <<svars, page, calls>>

\* App.jsx NurseModal handleSubmit and handleSave up to the await
handleSubmit ==
    /\ app.isModalOpen /\ ~app.isSaving
    /\ CanCall
    /\ LET form == app.formData
           body == Body(JsStr(form.name), JsStr(form.license_number),
                             JsStr(form.dob), JsStr(form.age))
       IN  IF \/ form.name = <<>> \/ form.license_number = <<>>
              \/ form.dob = <<>> \/ form.age = <<>>
           THEN /\ app' = [app EXCEPT !.formError = "All fields are required"]
                /\ UNCHANGED calls
           ELSE /\ app' = [app EXCEPT !.formError = "", !.isSaving = TRUE,
                                      !.submitterOpen = TRUE]
                /\ calls' = Append(calls,
                              IF app.editingNurse # NoRow
                              THEN NewCall("PUT", app.editingNurse.id, body)
                              ELSE NewCall("POST", 0, body))
    /\ UNCHANGED <<svars, page>>

\* response.json() of a response that has a body to parse
HasJson(call) == ~(Ok(call) /\ call.row = NoRow)

\* App.jsx createNurse and updateNurse after the response, then the rest of
\* handleSave and of handleSubmit
AppSaveDone(i) ==
    /\ calls[i].stage = "answered" /\ calls[i].op \in {"POST", "PUT"}
    /\ calls' = RemoveAt(calls, i)
    /\ IF Ok(calls[i]) /\ HasJson(calls[i])
       THEN app' = [app EXCEPT
                      !.nurses =
                          IF calls[i].op = "POST"
                          THEN <<calls[i].row>> \o app.nurses
                          ELSE [k \in 1..Len(app.nurses) |->
                                   IF app.nurses[k].id = calls[i].id
                                   THEN calls[i].row ELSE app.nurses[k]],
                      !.toast = IF calls[i].op = "POST"
                                THEN "Nurse added successfully!"
                                ELSE "Nurse updated successfully!",
                      !.isSaving = FALSE,
                      !.isModalOpen = FALSE, !.editingNurse = NoRow,
                      !.formError = "", !.formData = EmptyForm,
                      !.submitterOpen = FALSE]
       ELSE app' = [app EXCEPT
                      !.isSaving = FALSE, !.submitterOpen = FALSE,
                      !.formError = IF HasJson(calls[i]) THEN calls[i].error
                                    ELSE "Unexpected end of JSON input"]
    /\ UNCHANGED <<svars, page>>

\* App.jsx handleDelete up to the await: the delete button of a row, and
\* window.confirm answered with OK
handleDelete(k) ==
    /\ TableShown /\ ~app.isModalOpen
    /\ k \in 1..Len(ShownRows)
    /\ CanCall
    /\ calls' = Append(calls, NewCall("DELETE", ShownRows[k].id, NoBody))
    /\ UNCHANGED <<svars, page, app>>

\* App.jsx deleteNurse after the response and the rest of handleDelete
AppDeleteDone(i) ==
    /\ calls[i].stage = "answered" /\ calls[i].op = "DELETE"
    /\ calls' = RemoveAt(calls, i)
    /\ IF Ok(calls[i])
       THEN app' = [app EXCEPT
                      !.nurses = SelectSeq(app.nurses,
                                    LAMBDA n : n.id # calls[i].id),
                      !.toast = "Nurse deleted successfully!"]
       ELSE app' = [app EXCEPT !.toast = calls[i].error]
    /\ UNCHANGED <<svars, page>>

\* App.jsx fetchNurses after its await
AppListDone(i) ==
    /\ calls[i].stage = "answered" /\ calls[i].op = "LIST"
    /\ calls' = RemoveAt(calls, i)
    /\ IF Ok(calls[i])
       THEN app' = [app EXCEPT !.nurses = calls[i].rows, !.loading = FALSE]
       ELSE app' = [app EXCEPT
                      !.error = IF calls[i].status = 0 THEN calls[i].error
                                ELSE "Failed to fetch nurses",
                      !.loading = FALSE]
    /\ UNCHANGED <<svars, page>>

\* App.jsx: the Retry button of the error banner calls fetchNurses
AppRetry ==
    /\ app.error # "null"
    /\ CanCall
    /\ app' = [app EXCEPT !.loading = TRUE, !.error = "null"]
    /\ calls' = Append(calls, NewCall("LIST", 0, NoBody))
    /\ UNCHANGED <<svars, page>>

(***************************************************************************)
(* A client and its server.  The page has just been opened and its first   *)
(* call, the list of nurses, is on its way; or it was opened earlier and   *)
(* has shown the list it received.  server.js is started on a database     *)
(* file that has been used, so that it does not insert its sample rows.    *)
(* The user sorts by name and by age and leaves the search box empty.      *)
(***************************************************************************)
ClientInit ==
    /\ \E v \in {"backend", "root"}, db \in DbFiles :
          /\ v = "root" => db = UsedDb
          /\ InitFrom(v, db)
    /\ \/ /\ page = IF variant = "root"
                    THEN [PageInit EXCEPT !.loadingShown = TRUE] ELSE PageInit
          /\ app = AppInit
          /\ calls = <<NewCall("LIST", 0, NoBody)>>
       \/ /\ page = IF variant = "root"
                    THEN [PageInit EXCEPT !.nurses = SelectAll(nurses)]
                    ELSE PageInit
          /\ app = IF variant = "backend"
                   THEN [AppInit EXCEPT !.nurses = SelectAll(nurses),
                                        !.loading = FALSE]
                   ELSE AppInit
          /\ calls = <<>>

\* the headers the user clicks
ClientColumns == {"name", "age"}

ClientNext ==
    \/ \E i \in 1..Len(calls), s \in Slots : Reach(i, s)
    \/ \E i \in 1..Len(calls) : NetworkFail(i)
    \/ \E s \in Slots : ServerStep(s)
    \/ \E s \in Slots : Answer(s)
    \/ variant = "root" /\ PageOpenAdd
    \/ \E id \in IdParams : variant = "root" /\ editNurse(id)
    \/ variant = "root" /\ PageCloseModal
    \/ \E form \in Forms : variant = "root" /\ PageFill(form)
    \/ variant = "root" /\ handleFormSubmit
    \/ \E i \in 1..Len(calls) : variant = "root" /\ PageSaveDone(i)
    \/ \E id \in IdParams : variant = "root" /\ confirmDelete(id)
    \/ variant = "root" /\ PageCloseDeleteModal
    \/ variant = "root" /\ PageDeleteNurse
    \/ \E i \in 1..Len(calls) : variant = "root" /\ PageDeleteDone(i)
    \/ \E i \in 1..Len(calls) : variant = "root" /\ PageListDone(i)
    \/ \E column \in ClientColumns :
          /\ variant = "root" /\ PageFree /\ HeaderClick(column)
          /\ UNCHANGED <<svars, app, calls>>
    \/ variant = "backend" /\ openAddModal
    \/ \E k \in 1..MaxLen : variant = "backend" /\ openEditModal(k)
    \/ variant = "backend" /\ AppCloseModal
    \/ \E form \in Forms : variant = "backend" /\ AppFill(form)
    \/ variant = "backend" /\ handleSubmit
    \/ \E i \in 1..Len(calls) : variant = "backend" /\ AppSaveDone(i)
    \/ \E k \in 1..MaxLen : variant = "backend" /\ handleDelete(k)
    \/ \E i \in 1..Len(calls) : variant = "backend" /\ AppDeleteDone(i)
    \/ \E i \in 1..Len(calls) : variant = "backend" /\ AppListDone(i)
    \/ variant = "backend" /\ AppRetry
    \/ \E key \in ClientColumns :
          /\ variant = "backend" /\ ~app.isModalOpen /\ handleSort(key)
          /\ UNCHANGED <<svars, page, calls>>

ClientSpec == ClientInit /\ [][ClientNext]_vars


(***************************************************************************)
(* Properties of the clients.                                              *)
(***************************************************************************)
\* the calls in flight that a user action has made
UserCalls == {i \in 1..Len(calls) : calls[i].op # "LIST"}

\* the saves in flight
SaveCalls == {i \in 1..Len(calls) : calls[i].op \in {"POST", "PUT"}}

\* C18: a client has at most one call made by a user action in flight: the
\* control that made it makes no other call before the first has resolved.
C18_OneCallInFlight == Cardinality(UserCalls) <= 1

\* the response of call i is delivered to the code that awaits it
SaveDone(i) ==
    \/ variant = "root" /\ PageSaveDone(i)
    \/ variant = "backend" /\ AppSaveDone(i)

DeleteDone(i) ==
    \/ variant = "root" /\ PageDeleteDone(i)
    \/ variant = "backend" /\ AppDeleteDone(i)

\* the call was answered with success and, for a save, with a record
Succeeded(call) ==
    Ok(call) /\ (call.op \in {"POST", "PUT"} => Found(call.row))

\* arr with every element of the given id replaced by row
ReplacedById(arr, id, row) ==
    [k \in 1..Len(arr) |-> IF arr[k].id = id THEN row ELSE arr[k]]

\* C19: when the response of a mutating call is delivered, the client
\* collection is patched: a successful create puts the returned record in
\* front of the unchanged collection, a successful update replaces the
\* element of the call's id in place by the returned record, a successful
\* delete removes the element of the call's id, and a failed call leaves
\* the collection as it is.
C19_Patching ==
    [][\A i \in 1..Len(calls) :
          /\ (SaveDone(i) /\ calls[i].op = "POST" /\ Succeeded(calls[i]))
                => Collection' = <<calls[i].row>> \o Collection
          /\ (SaveDone(i) /\ calls[i].op = "PUT" /\ Succeeded(calls[i]))
                => Collection' =
                      ReplacedById(Collection, calls[i].id, calls[i].row)
          /\ (DeleteDone(i) /\ Succeeded(calls[i]))
                => Collection' =
                      SelectSeq(Collection, LAMBDA n : n.id # calls[i].id)
          /\ ((SaveDone(i) \/ DeleteDone(i)) /\ ~Ok(calls[i]))
                => Collection' = Collection]_vars

\* part_000 renderTable and the tbody of App.jsx: the rows of the table
Rendered == IF variant = "root" THEN page.nurses ELSE ShownRows

\* no row comes after a row that the client's comparator puts behind it
Ordered(rows, column, direction) ==
    \A i \in 1..Len(rows), j \in 1..Len(rows) :
       i < j => Compare(IF variant = "root" THEN "page" ELSE "app",
                        rows[i], rows[j], column, direction) <= 0

\* C20: whenever a sort column is selected, the rows of the table are in
\* the order of that column and direction, also after the response of a
\* create, update or delete has changed the client collection.
C20_RowsOrdered ==
    SortColumn # "null" => Ordered(Rendered, SortColumn, SortDirection)

(***************************************************************************)
(* Concurrent DELETE requests of backend/server.js.                        *)
(***************************************************************************)
\* this step answers the DELETE in slot s with 200
DeleteAnswersOk(s) ==
    /\ reqs[s].pc # "done" /\ reqs'[s].pc = "done"
    /\ reqs'[s].op = "DELETE" /\ reqs'[s].status = 200

\* C25: in backend/server.js a record is deleted with success at most once:
\* no DELETE is answered 200 on an id that an earlier DELETE answered 200.
C25_OneDeleteOk ==
    [][\A s \in Slots :
          (variant = "backend" /\ DeleteAnswersOk(s))
             => reqs'[s].id \notin deletedOk]_vars

(***************************************************************************)
(* The form on its own: a client that has shown an empty list and whose    *)
(* user opens the form, changes its inputs one by one and submits it.      *)
(***************************************************************************)
sDob2024 == <<50, 48, 50, 52, 45, 48, 54, 45, 48, 49>>     \* "2024-06-01"

\* what the user puts in one input
InputValues ==
    [name |-> {<<>>, sBo}, license_number |-> {<<>>, sRN2},
     dob |-> {<<>>, sDob1985, sDob1990, sDob2024},
     age |-> {<<>>, s40}]

\* the local date of new Date() when the dob is changed: the day before a
\* birthday, a birthday, the last day of the year
Todays ==
    { [y |-> 2024, m |-> 3, d |-> 14], [y |-> 2024, m |-> 3, d |-> 15],
      [y |-> 2024, m |-> 12, d |-> 31] }

\* the time zone of the browser, in hours ahead of UTC
Zones == {0 - 5, 0, 2}

FormInit ==
    /\ variant \in {"backend", "root"}
    /\ nurses = {} /\ sqlite_sequence = 0 /\ clock = 0
    /\ reqs = [s \in Slots |-> IdleReq] /\ timers = <<>> /\ nreq = 0
    /\ everAssigned = {} /\ deletedOk = {} /\ submitted = {}
    /\ calls = <<>>
    /\ page = PageInit
    /\ app = IF variant = "backend" THEN [AppInit EXCEPT !.loading = FALSE]
             ELSE AppInit

FormNext ==
    \/ variant = "root" /\ PageOpenAdd
    \/ variant = "root" /\ PageCloseModal
    \/ \E name \in DOMAIN InputValues, today \in Todays, tz \in Zones :
          \E value \in InputValues[name] :
             variant = "root" /\ PageInput(name, value, today, tz)
    \/ variant = "root" /\ handleFormSubmit
    \/ variant = "backend" /\ openAddModal
    \/ variant = "backend" /\ AppCloseModal
    \/ \E name \in DOMAIN InputValues, today \in Todays, tz \in Zones :
          \E value \in InputValues[name] :
             variant = "backend" /\ handleChange(name, value, today, tz)
    \/ variant = "backend" /\ handleSubmit

FormSpec == FormInit /\ [][FormNext]_vars

\* the age of someone born on the day value at the date today: the
\* difference of the years, less one before the birthday
AgeOn(value, today) ==
    LET born == DateFields(value)
    IN  today.y - born.y
           - (IF today.m < born.m \/ (today.m = born.m /\ today.d < born.d)
              THEN 1 ELSE 0)

\* the form of the client and its calls
Form == IF variant = "root" THEN page.form ELSE app.formData

\* this step submits the form
Submits ==
    \/ variant = "root" /\ handleFormSubmit
    \/ variant = "backend" /\ handleSubmit

\* C22: a dob entered in the form sets the age input to the age on the
\* current date: the difference of the years, less one exactly when the
\* current month and day are before those of the dob; and a submitted form
\* sends the age that is in the age input.
C22_DerivedAge ==
    [][/\ \A value \in InputValues.dob \ {<<>>}, today \in Todays,
             tz \in Zones :
             ( \/ variant = "root" /\ PageInput("dob", value, today, tz)
               \/ variant = "backend"
                     /\ handleChange("dob", value, today, tz) )
             => Form'.age = NumberToString(AgeOn(value, today))
       /\ (Submits /\ Len(calls') > Len(calls))
             => ParseInt(calls'[Len(calls')].body.age)
                   = ParseIntStr(Form.age)]_vars

(***************************************************************************)
(* What the user is told about a failed call.                              *)
(***************************************************************************)
\* the response of call i is delivered and the call was made by the user
MutationDone(i) == SaveDone(i) \/ DeleteDone(i)

\* after this step the user sees the message: in the toast, or in the form
\* of App.jsx, which is rendered while it is open
ShownNext(msg) ==
    IF variant = "root" THEN page'.toast = msg
    ELSE \/ app'.toast = msg
         \/ app'.isModalOpen /\ app'.formError = msg

\* the messages the clients show for a failure they do not name
GenericErrors ==
    { MsgNetwork, "Failed to delete nurse. Please try again.",
      "Failed to save nurse. Please try again." }

\* C21: when a create, update or delete is answered with a failure status
\* and an error message, the user is shown exactly that message; when the
\* server cannot be reached the user is shown an error; and the delivery of
\* a failure makes no new call.
C21_ErrorShown ==
    [][\A i \in 1..Len(calls) :
          (MutationDone(i) /\ ~Ok(calls[i])) =>
             /\ calls[i].status # 0 => ShownNext(calls[i].error)
             /\ calls[i].status = 0 => \E msg \in GenericErrors : ShownNext(msg)
             /\ calls' = RemoveAt(calls, i)]_vars

(***************************************************************************)
(* The collections of the clients under races.                             *)
(***************************************************************************)
IdsOf(arr) == {arr[k].id : k \in 1..Len(arr)}

NoDuplicateIds(arr) ==
    \A j \in 1..Len(arr), k \in 1..Len(arr) : arr[j].id = arr[k].id => j = k

\* C23: the collection of part_000 never holds an id twice, and an id
\* leaves it only when the successful response of a DELETE on that id is
\* delivered, whatever the user does with the form while a save is in
\* flight.
C23_PageCollection ==
    /\ [](variant = "root" => NoDuplicateIds(page.nurses))
    /\ [][variant = "root" =>
             \A id \in IdsOf(page.nurses) \ IdsOf(page'.nurses) :
                \E i \in 1..Len(calls) :
                   /\ PageDeleteDone(i)
                   /\ Ok(calls[i]) /\ calls[i].id = id]_vars

\* C24: with App.jsx as the only writer, whenever none of its calls is in
\* flight its collection holds the ids of the table of the server, each of
\* them once.
C24_AppConverges ==
    (variant = "backend" /\ calls = <<>> /\ ~app.loading /\ app.error = "null")
       => /\ IdsOf(app.nurses) = Ids(nurses)
          /\ NoDuplicateIds(app.nurses)

(***************************************************************************)
(* The form of App.jsx and the save that was submitted from it.            *)
(***************************************************************************)
\* C26: the form of App.jsx is closed only by the user or by the success
\* of the save that was submitted from it while it has stayed open; the
\* resolution of a save submitted from a form that was closed since does
\* not close the form that is open now and does not change its error.
C26_ModalSession ==
    [][(variant = "backend" /\ app.isModalOpen) =>
          /\ ~app'.isModalOpen =>
                \/ AppCloseModal
                \/ \E i \in 1..Len(calls) :
                      AppSaveDone(i) /\ Ok(calls[i]) /\ app.submitterOpen
          /\ \A i \in 1..Len(calls) :
                (AppSaveDone(i) /\ ~app.submitterOpen)
                   => app'.formError = app.formError]_vars

=============================================================================
